---- MODULE Spec2Model ----
(***************************************************************************)
(* NoteVision backend (src/backend/main.py): the notebook store, its       *)
(* permission helper and its request handlers, as a state machine.         *)
(*                                                                         *)
(* The store is MongoDB: every find_one / update_one / insert_one /        *)
(* delete_one / count_documents is one atomic step on one document, and a  *)
(* handler is a sequence of such steps.  A request slot (procs[p]) holds   *)
(* a handler's position and locals between its store calls.  With one      *)
(* slot the handlers run one after the other; with several they            *)
(* interleave between store calls (several server workers on one store).   *)
(*                                                                         *)
(* Strings whose contents matter (tags) are sequences of code points.      *)
(***************************************************************************)
EXTENDS Integers, Sequences, FiniteSets, TLC

VARIABLES
    users,      \* users_collection: sequence of user documents
    notebooks,  \* notebooks_collection: _id -> notebook document
    nextNb,     \* next ObjectId the driver assigns to an inserted notebook
    nextNote,   \* next ObjectId that Note's default_factory yields
    procs,      \* request slot -> handler position, arguments, locals, response
    start,      \* history: slot -> the store when the slot's request arrived,
                \* and whether no other request has been served beside it
    last,       \* history: the request that completed last
    prev        \* history: the one completed before it, if last repeats it

vars == <<users, notebooks, nextNb, nextNote, procs, start, last, prev>>

(***************************************************************************)
(* Bounds of the model.                                                    *)
(***************************************************************************)
MaxNb == 1          \* notebooks ever inserted
MaxNotes == 2       \* notes ever constructed
MaxAcl == 2         \* length of the access lists drawn for check_permission
NumProcs == 2       \* request slots of the interleaved specifications

SeqProcs == {1}
Procs == 1..NumProcs

None == [none |-> TRUE]
NoCall == [op |-> "none"]

Alice == "alice@x"
Bob == "bob@x"
Carol == "carol@x"
Dave == "dave@x"            \* never registered
Emails == {Alice, Bob, Carol, Dave}
Permissions == {"view", "edit"}

(***************************************************************************)
(* dict.get(key, default)                                                  *)
(***************************************************************************)
Get(doc, key, default) == IF key \in DOMAIN doc THEN doc[key] ELSE default

Range(s) == {s[i] : i \in DOMAIN s}

(***************************************************************************)
(* check_permission: the loop over access_list returns at the first entry  *)
(* whose user_email matches.                                               *)
(***************************************************************************)
RECURSIVE scan_access_list(_, _, _)
scan_access_list(access_list, user_email, required_permission) ==
    IF access_list = <<>> THEN FALSE
    ELSE LET entry == Head(access_list) IN
         IF entry.user_email = user_email
         THEN IF entry.permission = "edit" THEN TRUE
              ELSE IF entry.permission = "view" /\ required_permission = "view" THEN TRUE
              ELSE FALSE
         ELSE scan_access_list(Tail(access_list), user_email, required_permission)

\* mutant: the owner test is missing
check_permission_without_owner(notebook_doc, user_email, required_permission) ==
    IF notebook_doc = None THEN FALSE
    ELSE scan_access_list(Get(notebook_doc, "access_list", <<>>),
                          user_email, required_permission)

\* mutant: a public notebook may be viewed by everybody
check_permission_public_view(notebook_doc, user_email, required_permission) ==
    IF notebook_doc = None THEN FALSE
    ELSE IF notebook_doc.owner_email = user_email THEN TRUE
    ELSE IF notebook_doc.is_public /\ required_permission = "view" THEN TRUE
    ELSE scan_access_list(Get(notebook_doc, "access_list", <<>>),
                          user_email, required_permission)

check_permission(notebook_doc, user_email, required_permission) ==
    IF notebook_doc = None THEN FALSE
    ELSE IF notebook_doc.owner_email = user_email THEN TRUE
    ELSE scan_access_list(Get(notebook_doc, "access_list", <<>>),
                          user_email, required_permission)

(***************************************************************************)
(* The store's primitives.                                                 *)
(***************************************************************************)
\* users_coll.find_one({"email": email}): the first matching document
users_find_one(email) ==
    IF \E i \in DOMAIN users : users[i].email = email
    THEN users[CHOOSE i \in DOMAIN users :
                 /\ users[i].email = email
                 /\ \A j \in DOMAIN users : users[j].email = email => i <= j]
    ELSE None

\* notebooks_coll.find_one({"_id": id})
notebooks_find_one(id) ==
    IF id \in DOMAIN notebooks THEN notebooks[id] ELSE None

\* mutant: the filter names the _id only
notebooks_find_one_any_owner(id, owner_email) ==
    IF id \in DOMAIN notebooks THEN notebooks[id] ELSE None

\* notebooks_coll.find_one({"_id": id, "owner_email": owner_email})
notebooks_find_one_owned(id, owner_email) ==
    IF id \in DOMAIN notebooks /\ notebooks[id].owner_email = owner_email
    THEN notebooks[id] ELSE None

\* ObjectId(notebook_id) raises for a string that is no 24-digit hex id; the ids
\* of a request are numbers, 0 standing for every malformed string
ObjectId_is_valid(id) == id >= 1

\* get_current_user: the token's email must be that of a stored user
get_current_user(email) == users_find_one(email) # None

(***************************************************************************)
(* Request slots.                                                          *)
(***************************************************************************)
Idle == [pc |-> "idle", op |-> "none", user |-> "", nb |-> 0, arg |-> None,
         loc |-> None, resp |-> None]

Free(p) == procs[p].pc \in {"idle", "done"}

Request(op, user, nb, arg) ==
    [pc |-> "start", op |-> op, user |-> user, nb |-> nb, arg |-> arg,
     loc |-> None, resp |-> None]

\* the handler returns, or raises HTTPException(status)
Respond(r, status, body) ==
    [r EXCEPT !.pc = "done", !.loc = None, !.resp = [status |-> status, body |-> body]]

\* the handler goes on to its next store call
Goto(r, pc, loc) == [r EXCEPT !.pc = pc, !.loc = loc]

Set(p, r) == procs' = [procs EXCEPT ![p] = r]

(***************************************************************************)
(* History of completed requests (observation only; no handler reads it).  *)
(***************************************************************************)
Completed(r, arrival) ==
    [op |-> r.op, user |-> r.user, nb |-> r.nb, arg |-> r.arg,
     status |-> r.resp.status, body |-> r.resp.body,
     before |-> arrival.store, alone |-> arrival.alone]

\* what a request addresses inside its notebook
Target(c) ==
    CASE c.op = "share_notebook" -> c.arg.recipient_email
      [] c.op \in {"edit_note", "delete_note"} -> c.arg.note_id
      [] c.op = "update_notebook_tags" -> c.arg.tags
      [] OTHER -> None

\* c2 repeats c1: the same operation by the same user on the same target
SameKind(c1, c2) ==
    /\ c1.op = c2.op
    /\ c1.user = c2.user
    /\ c1.nb = c2.nb
    /\ Target(c1) = Target(c2)

\* slot p took the step.  At the arrival of its request: note the store, and
\* that the request is alone if no other is being served; the others being
\* served are no longer alone.  At its completion: record it (last), after
\* the request it repeats, if any (prev).  The arrival of a request of
\* another kind clears both.
Observe(p) ==
    /\ start' = IF Free(p)
                THEN [q \in Procs |->
                        IF q = p
                        THEN [store |-> notebooks,
                              alone |-> \A o \in Procs \ {p} : Free(o)]
                        ELSE IF Free(q) THEN start[q]
                        ELSE [start[q] EXCEPT !.alone = FALSE]]
                ELSE start
    /\ IF procs'[p].pc = "done"
       THEN LET c == Completed(procs'[p], start'[p]) IN
            /\ last' = c
            /\ prev' = IF SameKind(last, c) THEN last ELSE NoCall
       ELSE IF Free(p) /\ ~SameKind(last, procs'[p])
       THEN /\ last' = NoCall
            /\ prev' = NoCall
       ELSE UNCHANGED <<last, prev>>

\* the same step with the arrivals only: which requests were served alone
Arrival(p) ==
    /\ start' = IF Free(p)
                THEN [q \in Procs |->
                        IF q = p
                        THEN [store |-> <<>>,
                              alone |-> \A o \in Procs \ {p} : Free(o)]
                        ELSE IF Free(q) THEN start[q]
                        ELSE [start[q] EXCEPT !.alone = FALSE]]
                ELSE start
    /\ UNCHANGED <<last, prev>>

\* the same step without the history
Unobserved == UNCHANGED <<start, last, prev>>

(***************************************************************************)
(* POST /notebooks: create_notebook                                        *)
(***************************************************************************)
new_notebook_data(name, user_email, now) ==
    [name |-> name, owner_email |-> user_email, created_at |-> now,
     notes |-> <<>>, access_list |-> <<>>, is_public |-> FALSE,
     tags |-> <<>>, likes |-> <<>>]

\* insert_one(new_notebook_data)
create_notebook_insert(p, user_email, name, now) ==
    /\ Free(p)
    /\ get_current_user(user_email)
    /\ nextNb <= MaxNb
    /\ notebooks' = (nextNb :> new_notebook_data(name, user_email, now)) @@ notebooks
    /\ nextNb' = nextNb + 1
    /\ Set(p, Goto(Request("create_notebook", user_email, nextNb, [name |-> name]),
                   "create_find", [inserted_id |-> nextNb]))
    /\ UNCHANGED <<users, nextNote>>

\* find_one({"_id": result.inserted_id}); a missing document raises inside the
\* try block, and the except clause turns every exception into a 500
create_notebook_find(p) ==
    /\ procs[p].pc = "create_find"
    /\ LET created_doc == notebooks_find_one(procs[p].loc.inserted_id) IN
       Set(p, IF created_doc # None
              THEN Respond(procs[p], 200, created_doc)
              ELSE Respond(procs[p], 500, None))
    /\ UNCHANGED <<users, notebooks, nextNb, nextNote>>

(***************************************************************************)
(* POST /notebooks/{notebook_id}/share: share_notebook                     *)
(***************************************************************************)
\* next((i for i, entry in enumerate(current_access) if ...), -1), 0-based
existing_entry_index(current_access, recipient_email) ==
    IF \E i \in DOMAIN current_access : current_access[i].user_email = recipient_email
    THEN (CHOOSE i \in DOMAIN current_access :
            /\ current_access[i].user_email = recipient_email
            /\ \A j \in DOMAIN current_access :
                 current_access[j].user_email = recipient_email => i <= j) - 1
    ELSE -1

\* mutant: the handler without its self-share test
share_notebook_find_user_any_recipient(p, owner_email, notebook_id, recipient_email, permission) ==
    /\ Free(p)
    /\ get_current_user(owner_email)
    /\ LET r == Request("share_notebook", owner_email, notebook_id,
                        [recipient_email |-> recipient_email, permission |-> permission]) IN
       Set(p, IF ~ObjectId_is_valid(notebook_id) THEN Respond(r, 400, None)
              ELSE IF users_find_one(recipient_email) = None THEN Respond(r, 404, None)
              ELSE Goto(r, "share_find_notebook", None))
    /\ UNCHANGED <<users, notebooks, nextNb, nextNote>>

\* mutant: the handler without its lookup of the recipient
share_notebook_find_user_unknown_recipient(p, owner_email, notebook_id, recipient_email, permission) ==
    /\ Free(p)
    /\ get_current_user(owner_email)
    /\ LET r == Request("share_notebook", owner_email, notebook_id,
                        [recipient_email |-> recipient_email, permission |-> permission]) IN
       Set(p, IF owner_email = recipient_email THEN Respond(r, 400, None)
              ELSE IF ~ObjectId_is_valid(notebook_id) THEN Respond(r, 400, None)
              ELSE Goto(r, "share_find_notebook", None))
    /\ UNCHANGED <<users, notebooks, nextNb, nextNote>>

\* the self-share test, the id's parse and users_coll.find_one({"email": recipient})
share_notebook_find_user(p, owner_email, notebook_id, recipient_email, permission) ==
    /\ Free(p)
    /\ get_current_user(owner_email)
    /\ LET r == Request("share_notebook", owner_email, notebook_id,
                        [recipient_email |-> recipient_email, permission |-> permission]) IN
       Set(p, IF owner_email = recipient_email THEN Respond(r, 400, None)
              ELSE IF ~ObjectId_is_valid(notebook_id) THEN Respond(r, 400, None)
              ELSE IF users_find_one(recipient_email) = None THEN Respond(r, 404, None)
              ELSE Goto(r, "share_find_notebook", None))
    /\ UNCHANGED <<users, notebooks, nextNb, nextNote>>

\* notebooks_coll.find_one({"_id": nb_object_id, "owner_email": owner_email})
share_notebook_find_notebook(p) ==
    /\ procs[p].pc = "share_find_notebook"
    /\ LET notebook_doc == notebooks_find_one_owned(procs[p].nb, procs[p].user) IN
       Set(p, IF notebook_doc = None THEN Respond(procs[p], 404, None)
              ELSE Goto(procs[p], "share_update",
                        [existing_entry_index |->
                            existing_entry_index(Get(notebook_doc, "access_list", <<>>),
                                                 procs[p].arg.recipient_email)]))
    /\ UNCHANGED <<users, notebooks, nextNb, nextNote>>

\* update_one({"_id": id, "access_list.<i>.user_email": recipient},
\*            {"$set": {"access_list.<i>.permission": permission}})
set_permission_matches(id, i, recipient_email) ==
    /\ id \in DOMAIN notebooks
    /\ i + 1 \in DOMAIN notebooks[id].access_list
    /\ notebooks[id].access_list[i + 1].user_email = recipient_email

\* mutant: {"$set": {"access_list": [the entry with the new permission]}}
set_permission_only_entry(id, i, permission) ==
    [notebooks EXCEPT ![id].access_list =
        <<[@[i + 1] EXCEPT !.permission = permission]>>]

set_permission(id, i, permission) ==
    [notebooks EXCEPT ![id].access_list[i + 1].permission = permission]

\* update_one({"_id": id}, {"$push": {"access_list": new_access_entry}})
push_access_entry(id, new_access_entry) ==
    [notebooks EXCEPT ![id].access_list = Append(@, new_access_entry)]

\* the update: in place at the index read before, or a push; a failed match
\* raises inside the try block and becomes a 500
share_notebook_update(p) ==
    /\ procs[p].pc = "share_update"
    /\ LET id == procs[p].nb
           i == procs[p].loc.existing_entry_index
           recipient_email == procs[p].arg.recipient_email
           permission == procs[p].arg.permission IN
       IF i # -1
       THEN IF set_permission_matches(id, i, recipient_email)
            THEN /\ notebooks' = set_permission(id, i, permission)
                 /\ Set(p, Respond(procs[p], 204, None))
            ELSE /\ UNCHANGED notebooks
                 /\ Set(p, Respond(procs[p], 500, None))
       ELSE IF id \in DOMAIN notebooks
            THEN /\ notebooks' = push_access_entry(id,
                        [user_email |-> recipient_email, permission |-> permission])
                 /\ Set(p, Respond(procs[p], 204, None))
            ELSE /\ UNCHANGED notebooks
                 /\ Set(p, Respond(procs[p], 500, None))
    /\ UNCHANGED <<users, nextNb, nextNote>>

(***************************************************************************)
(* PATCH /notebooks/{notebook_id}/tags: update_notebook_tags               *)
(***************************************************************************)
\* the characters str.strip() removes, among the ASCII ones
Whitespace == {9, 10, 11, 12, 13, 28, 29, 30, 31, 32}

RECURSIVE lstrip(_)
lstrip(str) ==
    IF str # <<>> /\ Head(str) \in Whitespace THEN lstrip(Tail(str)) ELSE str

RECURSIVE rstrip(_)
rstrip(str) ==
    IF str # <<>> /\ str[Len(str)] \in Whitespace
    THEN rstrip(SubSeq(str, 1, Len(str) - 1)) ELSE str

\* str.strip()
strip(str) == rstrip(lstrip(str))

\* str < str: by code point, a proper prefix first
RECURSIVE str_less(_, _)
str_less(a, b) ==
    IF b = <<>> THEN FALSE
    ELSE IF a = <<>> THEN TRUE
    ELSE IF Head(a) # Head(b) THEN Head(a) < Head(b)
    ELSE str_less(Tail(a), Tail(b))

\* sorted(list(a_set)) of strings
RECURSIVE sorted(_)
sorted(a_set) ==
    IF a_set = {} THEN <<>>
    ELSE LET least == CHOOSE x \in a_set : \A y \in a_set : x = y \/ str_less(x, y)
         IN <<least>> \o sorted(a_set \ {least})

\* mutant: list(dict.fromkeys(...)): the first occurrences, in the input's order
RECURSIVE first_occurrences(_)
first_occurrences(list) ==
    IF list = <<>> THEN <<>>
    ELSE LET rest == first_occurrences(SubSeq(list, 1, Len(list) - 1))
             x == list[Len(list)]
         IN IF x \in Range(rest) THEN rest ELSE Append(rest, x)

cleaned_tags_unsorted(new_tags) ==
    first_occurrences([i \in DOMAIN SelectSeq(new_tags, LAMBDA tag : strip(tag) # <<>>) |->
                          strip(SelectSeq(new_tags, LAMBDA tag : strip(tag) # <<>>)[i])])

\* mutant: the kept tags are not stripped
cleaned_tags_unstripped(new_tags) ==
    sorted({new_tags[i] : i \in {j \in DOMAIN new_tags : strip(new_tags[j]) # <<>>}})

\* sorted(list(set(tag.strip() for tag in new_tags if tag.strip())))
cleaned_tags(new_tags) ==
    sorted({strip(new_tags[i]) : i \in {j \in DOMAIN new_tags : strip(new_tags[j]) # <<>>}})

\* update_one({"_id": id, "owner_email": user_email}, {"$set": {"tags": cleaned_tags}})
update_notebook_tags_update(p, user_email, notebook_id, new_tags) ==
    /\ Free(p)
    /\ get_current_user(user_email)
    /\ LET r == Request("update_notebook_tags", user_email, notebook_id,
                        [tags |-> new_tags])
           tags == cleaned_tags(new_tags) IN
       IF ~ObjectId_is_valid(notebook_id)
       THEN /\ Set(p, Respond(r, 400, None))
            /\ UNCHANGED notebooks
       ELSE IF notebooks_find_one_owned(notebook_id, user_email) # None
       THEN /\ notebooks' = [notebooks EXCEPT ![notebook_id].tags = tags]
            /\ Set(p, Goto(r, "tags_find", None))
       ELSE /\ Set(p, Goto(r, "tags_count", None))
            /\ UNCHANGED notebooks
    /\ UNCHANGED <<users, nextNb, nextNote>>

\* matched_count == 0: count_documents({"_id": id}) tells 403 from 404
update_notebook_tags_count(p) ==
    /\ procs[p].pc = "tags_count"
    /\ Set(p, IF procs[p].nb \in DOMAIN notebooks
              THEN Respond(procs[p], 403, None)
              ELSE Respond(procs[p], 404, None))
    /\ UNCHANGED <<users, notebooks, nextNb, nextNote>>

\* find_one({"_id": id}) for the response; {} for a missing document fails the
\* response model's validation
update_notebook_tags_find(p) ==
    /\ procs[p].pc = "tags_find"
    /\ LET updated_doc == notebooks_find_one(procs[p].nb) IN
       Set(p, IF updated_doc # None
              THEN Respond(procs[p], 200, updated_doc)
              ELSE Respond(procs[p], 500, None))
    /\ UNCHANGED <<users, notebooks, nextNb, nextNote>>

(***************************************************************************)
(* POST /notebooks/{notebook_id}/notes: add_note_to_notebook               *)
(***************************************************************************)
\* mutant: the view permission suffices
add_note_find_view_suffices(p, user_email, notebook_id, content) ==
    /\ Free(p)
    /\ get_current_user(user_email)
    /\ nextNote <= MaxNotes
    /\ LET r == Request("add_note", user_email, notebook_id, [content |-> content])
           notebook_doc == notebooks_find_one(notebook_id) IN
       Set(p, IF ~ObjectId_is_valid(notebook_id) THEN Respond(r, 400, None)
              ELSE IF notebook_doc = None THEN Respond(r, 404, None)
              ELSE IF ~check_permission(notebook_doc, user_email, "view")
              THEN Respond(r, 403, None)
              ELSE Goto(r, "add_push", None))
    /\ UNCHANGED <<users, notebooks, nextNb, nextNote>>

\* the id's parse, find_one({"_id": id}) and the edit permission test
add_note_find(p, user_email, notebook_id, content) ==
    /\ Free(p)
    /\ get_current_user(user_email)
    /\ nextNote <= MaxNotes
    /\ LET r == Request("add_note", user_email, notebook_id, [content |-> content])
           notebook_doc == notebooks_find_one(notebook_id) IN
       Set(p, IF ~ObjectId_is_valid(notebook_id) THEN Respond(r, 400, None)
              ELSE IF notebook_doc = None THEN Respond(r, 404, None)
              ELSE IF ~check_permission(notebook_doc, user_email, "edit")
              THEN Respond(r, 403, None)
              ELSE Goto(r, "add_push", None))
    /\ UNCHANGED <<users, notebooks, nextNb, nextNote>>

\* mutant: {"$set": {"notes": [new_note]}} in place of the $push
add_note_push_set(p, now) ==
    /\ procs[p].pc = "add_push"
    /\ LET new_note == [_id |-> nextNote, content |-> procs[p].arg.content,
                        created_at |-> now] IN
       IF procs[p].nb \in DOMAIN notebooks
       THEN /\ notebooks' = [notebooks EXCEPT ![procs[p].nb].notes = <<new_note>>]
            /\ Set(p, Respond(procs[p], 200, new_note))
       ELSE /\ UNCHANGED notebooks
            /\ Set(p, Respond(procs[p], 500, None))
    /\ nextNote' = nextNote + 1
    /\ UNCHANGED <<users, nextNb>>

\* Note(content=...) draws a fresh _id and the time; then
\* update_one({"_id": id}, {"$push": {"notes": new_note}})
add_note_push(p, now) ==
    /\ procs[p].pc = "add_push"
    /\ LET new_note == [_id |-> nextNote, content |-> procs[p].arg.content,
                        created_at |-> now] IN
       IF procs[p].nb \in DOMAIN notebooks
       THEN /\ notebooks' = [notebooks EXCEPT ![procs[p].nb].notes = Append(@, new_note)]
            /\ Set(p, Respond(procs[p], 200, new_note))
       ELSE /\ UNCHANGED notebooks
            /\ Set(p, Respond(procs[p], 500, None))
    /\ nextNote' = nextNote + 1
    /\ UNCHANGED <<users, nextNb>>

(***************************************************************************)
(* DELETE /notebooks/{notebook_id}/notes/{note_id}:                        *)
(* delete_note_from_notebook                                               *)
(***************************************************************************)
\* both ids' parse, find_one({"_id": id}) and the edit permission test
delete_note_find(p, user_email, notebook_id, note_id) ==
    /\ Free(p)
    /\ get_current_user(user_email)
    /\ LET r == Request("delete_note", user_email, notebook_id, [note_id |-> note_id])
           notebook_doc == notebooks_find_one(notebook_id) IN
       Set(p, IF ~ObjectId_is_valid(notebook_id) \/ ~ObjectId_is_valid(note_id)
              THEN Respond(r, 400, None)
              ELSE IF ~check_permission(notebook_doc, user_email, "edit")
              THEN Respond(r, 403, None)
              ELSE Goto(r, "delete_pull", None))
    /\ UNCHANGED <<users, notebooks, nextNb, nextNote>>

\* {"$pull": {"notes": {"_id": note_id}}}
pull_note(notes, note_id) == SelectSeq(notes, LAMBDA note : note._id # note_id)

\* mutant: a pull that removed nothing is an error (strict semantics)
delete_note_pull_strict(p) ==
    /\ procs[p].pc = "delete_pull"
    /\ LET id == procs[p].nb
           note_id == procs[p].arg.note_id IN
       IF id \in DOMAIN notebooks /\ pull_note(notebooks[id].notes, note_id) # notebooks[id].notes
       THEN /\ notebooks' = [notebooks EXCEPT ![id].notes = pull_note(@, note_id)]
            /\ Set(p, Respond(procs[p], 204, None))
       ELSE /\ UNCHANGED notebooks
            /\ Set(p, Respond(procs[p], 404, None))
    /\ UNCHANGED <<users, nextNb, nextNote>>

\* update_one({"_id": id}, {"$pull": ...}): 204 when a note was removed
\* (modified_count == 1) and when only the notebook matched; 404 otherwise
delete_note_pull(p) ==
    /\ procs[p].pc = "delete_pull"
    /\ LET id == procs[p].nb
           note_id == procs[p].arg.note_id IN
       IF id \in DOMAIN notebooks
       THEN /\ notebooks' = [notebooks EXCEPT ![id].notes = pull_note(@, note_id)]
            /\ Set(p, Respond(procs[p], 204, None))
       ELSE /\ UNCHANGED notebooks
            /\ Set(p, Respond(procs[p], 404, None))
    /\ UNCHANGED <<users, nextNb, nextNote>>

(***************************************************************************)
(* PUT /notebooks/{notebook_id}/notes/{note_id}: edit_note_in_notebook     *)
(***************************************************************************)
\* both ids' parse, find_one({"_id": id}) and the edit permission test, which
\* a missing notebook fails
edit_note_find(p, user_email, notebook_id, note_id, content) ==
    /\ Free(p)
    /\ get_current_user(user_email)
    /\ LET r == Request("edit_note", user_email, notebook_id,
                        [note_id |-> note_id, content |-> content])
           notebook_doc == notebooks_find_one(notebook_id) IN
       Set(p, IF ~ObjectId_is_valid(notebook_id) \/ ~ObjectId_is_valid(note_id)
              THEN Respond(r, 400, None)
              ELSE IF ~check_permission(notebook_doc, user_email, "edit")
              THEN Respond(r, 403, None)
              ELSE Goto(r, "edit_update", None))
    /\ UNCHANGED <<users, notebooks, nextNb, nextNote>>

\* the filter {"_id": id, "notes._id": note_id}
has_note(id, note_id) ==
    /\ id \in DOMAIN notebooks
    /\ \E i \in DOMAIN notebooks[id].notes : notebooks[id].notes[i]._id = note_id

\* mutant: {"$set": {"notes.0.content": content}}
set_first_note_content(notes, note_id, content) ==
    [notes EXCEPT ![1].content = content]

\* {"$set": {"notes.$.content": content}}: $ is the first note that the filter
\* matched
set_note_content(notes, note_id, content) ==
    LET first == CHOOSE i \in DOMAIN notes :
                    /\ notes[i]._id = note_id
                    /\ \A j \in DOMAIN notes : notes[j]._id = note_id => i <= j
    IN [notes EXCEPT ![first].content = content]

\* update_one(filter, $set); matched_count == 0 raises 404
edit_note_update(p) ==
    /\ procs[p].pc = "edit_update"
    /\ LET id == procs[p].nb
           note_id == procs[p].arg.note_id IN
       IF has_note(id, note_id)
       THEN /\ notebooks' = [notebooks EXCEPT ![id].notes =
                                set_note_content(@, note_id, procs[p].arg.content)]
            /\ Set(p, Goto(procs[p], "edit_return", None))
       ELSE /\ UNCHANGED notebooks
            /\ Set(p, Respond(procs[p], 404, None))
    /\ UNCHANGED <<users, nextNb, nextNote>>

\* find_one({"_id": id}) and the first note with the id, for the response;
\* 404 when the notebook or the note is gone
edit_note_return(p) ==
    /\ procs[p].pc = "edit_return"
    /\ LET id == procs[p].nb
           note_id == procs[p].arg.note_id IN
       Set(p, IF has_note(id, note_id)
              THEN Respond(procs[p], 200,
                           notebooks[id].notes[
                               CHOOSE i \in DOMAIN notebooks[id].notes :
                                  /\ notebooks[id].notes[i]._id = note_id
                                  /\ \A j \in DOMAIN notebooks[id].notes :
                                       notebooks[id].notes[j]._id = note_id => i <= j])
              ELSE Respond(procs[p], 404, None))
    /\ UNCHANGED <<users, notebooks, nextNb, nextNote>>

(***************************************************************************)
(* Initial states and inputs.                                              *)
(***************************************************************************)
Registered == <<[email |-> Alice], [email |-> Bob], [email |-> Carol]>>
Callers == {Alice, Bob, Carol}
Owners == {Alice, Bob}      \* the users who send requests to the handlers
NbIds == 0..(MaxNb + 1)     \* 0: malformed; MaxNb + 1: well-formed, never stored
Physics == <<112, 104, 121, 115>>       \* "phys"
Noon == 12

Init ==
    /\ users = Registered
    /\ notebooks = <<>>
    /\ nextNb = 1
    /\ nextNote = 1
    /\ procs = [p \in Procs |-> Idle]
    /\ start = [p \in Procs |-> None]
    /\ last = NoCall
    /\ prev = NoCall

(***************************************************************************)
(* PermSpec: check_permission applied to drawn documents.                  *)
(***************************************************************************)
AccessEntries == [user_email : Callers, permission : Permissions]
AccessLists == UNION {[1..n -> AccessEntries] : n \in 0..MaxAcl}
PermDocs ==
    {None}
    \cup [owner_email : Callers, is_public : BOOLEAN, access_list : AccessLists]
    \cup [owner_email : Callers, is_public : BOOLEAN]

PermInit ==
    /\ users = Registered
    /\ notebooks = <<>>
    /\ nextNb = 1
    /\ nextNote = 1
    /\ \E d \in PermDocs, u \in Callers, r \in Permissions :
         procs = [p \in Procs |->
                    IF p = 1
                    THEN Goto(Request("check_permission", u, 0,
                                      [notebook_doc |-> d, required_permission |-> r]),
                              "call", None)
                    ELSE Idle]
    /\ start = [p \in Procs |-> None]
    /\ last = NoCall
    /\ prev = NoCall

check_permission_call(p) ==
    /\ procs[p].pc = "call"
    /\ Set(p, Respond(procs[p], 200,
                      check_permission(procs[p].arg.notebook_doc, procs[p].user,
                                       procs[p].arg.required_permission)))
    /\ UNCHANGED <<users, notebooks, nextNb, nextNote>>

PermNext == \E p \in SeqProcs : check_permission_call(p) /\ Unobserved

PermSpec == PermInit /\ [][PermNext]_vars

(***************************************************************************)
(* ShareSpec: create and share requests, one after the other.              *)
(***************************************************************************)
ShareNext ==
    \E p \in SeqProcs :
        \/ \E u \in Owners :
             create_notebook_insert(p, u, Physics, Noon) /\ Observe(p)
        \/ create_notebook_find(p) /\ Observe(p)
        \/ \E u \in Owners, id \in NbIds, e \in Emails, perm \in Permissions :
             share_notebook_find_user(p, u, id, e, perm) /\ Observe(p)
        \/ share_notebook_find_notebook(p) /\ Observe(p)
        \/ share_notebook_update(p) /\ Observe(p)

ShareSpec == Init /\ [][ShareNext]_vars

(***************************************************************************)
(* Claims about check_permission (PermSpec).                               *)
(***************************************************************************)
PermDone == procs[1].op = "check_permission" /\ procs[1].pc = "done"
HasEntry(access_list, user_email) ==
    \E i \in DOMAIN access_list : access_list[i].user_email = user_email
HasEntryWith(access_list, user_email, permission) ==
    \E i \in DOMAIN access_list :
        /\ access_list[i].user_email = user_email
        /\ access_list[i].permission = permission

\* C1: whatever the access_list holds (nothing, no field at all, an entry for
\* the owner with permission view), check_permission answers true for the
\* notebook's owner, for required = view and for required = edit.
C1_OwnerAlwaysPasses ==
    PermDone =>
        LET d == procs[1].arg.notebook_doc IN
        (d # None /\ d.owner_email = procs[1].user) => procs[1].resp.body = TRUE

\* the owner, listed with permission view in the access_list, asked for edit
C1_Witness ==
    /\ PermDone
    /\ procs[1].arg.notebook_doc # None
    /\ procs[1].arg.notebook_doc.owner_email = procs[1].user
    /\ procs[1].arg.required_permission = "edit"
    /\ HasEntryWith(Get(procs[1].arg.notebook_doc, "access_list", <<>>),
                    procs[1].user, "view")
    /\ procs[1].resp.body = TRUE

\* C3: check_permission answers false, for view and for edit, when there is
\* no notebook document, and when the user is neither the owner nor named by
\* an access_list entry, whether the notebook is public or not.
C3_DeniesStrangers ==
    PermDone =>
        LET d == procs[1].arg.notebook_doc IN
        (\/ d = None
         \/ /\ d.owner_email # procs[1].user
            /\ ~HasEntry(Get(d, "access_list", <<>>), procs[1].user))
        => procs[1].resp.body = FALSE

\* a stranger asked to view a public notebook that has entries for others
C3_Witness ==
    /\ PermDone
    /\ procs[1].arg.notebook_doc # None
    /\ procs[1].arg.notebook_doc.is_public
    /\ procs[1].arg.notebook_doc.owner_email # procs[1].user
    /\ Get(procs[1].arg.notebook_doc, "access_list", <<>>) # <<>>
    /\ ~HasEntry(Get(procs[1].arg.notebook_doc, "access_list", <<>>), procs[1].user)
    /\ procs[1].arg.required_permission = "view"
    /\ procs[1].resp.body = FALSE

(***************************************************************************)
(* Claims about share_notebook, requests one after the other (ShareSpec).  *)
(***************************************************************************)
IsRegistered(email) == \E i \in DOMAIN users : users[i].email = email
Succeeded(c) == c.status \in {200, 204}
OwnedIn(store, id, user_email) ==
    id \in DOMAIN store /\ store[id].owner_email = user_email
EntriesOf(access_list, user_email) ==
    SelectSeq(access_list, LAMBDA entry : entry.user_email = user_email)
EntriesOfOthers(access_list, user_email) ==
    SelectSeq(access_list, LAMBDA entry : entry.user_email # user_email)
SameAccessLists(store1, store2) ==
    /\ DOMAIN store1 = DOMAIN store2
    /\ \A id \in DOMAIN store1 : store1[id].access_list = store2[id].access_list

\* no request is being served
Quiet == \A p \in Procs : Free(p)

\* the request recorded last is a share request that was served alone, and
\* nothing has been served since
ShareDone == Quiet /\ last.op = "share_notebook" /\ last.alone

\* two share requests one after the other, by the notebook's owner, for one
\* registered recipient other than the owner, with different permissions
SharedTwice ==
    /\ ShareDone
    /\ prev.op = "share_notebook"
    /\ prev.alone
    /\ OwnedIn(prev.before, last.nb, last.user)
    /\ IsRegistered(last.arg.recipient_email)
    /\ last.arg.recipient_email # last.user
    /\ prev.arg.permission # last.arg.permission

\* C4: after the owner shared a notebook with one recipient twice in a row
\* with different permissions, both calls have succeeded, the access_list
\* holds exactly one entry for the recipient, with the second call's
\* permission, and the entries of the other recipients are those from before
\* the first call, in their order.
C4_ShareTwiceOneEntry ==
    SharedTwice =>
        /\ Succeeded(prev) /\ Succeeded(last)
        /\ EntriesOf(notebooks[last.nb].access_list, last.arg.recipient_email)
             = <<[user_email |-> last.arg.recipient_email,
                  permission |-> last.arg.permission]>>
        /\ EntriesOfOthers(notebooks[last.nb].access_list, last.arg.recipient_email)
             = EntriesOfOthers(prev.before[last.nb].access_list,
                               last.arg.recipient_email)

\* the three ways to fail, but for the status of an unknown recipient
C7_Failures(c, unknown_recipient_status) ==
    /\ c.arg.recipient_email = c.user
         => c.status = 400 /\ SameAccessLists(notebooks, c.before)
    /\ ~IsRegistered(c.arg.recipient_email)
         => c.status = unknown_recipient_status /\ SameAccessLists(notebooks, c.before)
    /\ ~OwnedIn(c.before, c.nb, c.user)
         => ~Succeeded(c) /\ SameAccessLists(notebooks, c.before)
    /\ ~SameAccessLists(notebooks, c.before)
         => /\ OwnedIn(c.before, c.nb, c.user)
            /\ IsRegistered(c.arg.recipient_email)
            /\ c.arg.recipient_email # c.user

C6_OwnerFixedNeverListed ==
    /\ [](\A id \in DOMAIN notebooks :
            /\ IsRegistered(notebooks[id].owner_email)
            /\ ~HasEntry(notebooks[id].access_list, notebooks[id].owner_email))
    /\ [](last.op = "create_notebook" /\ Succeeded(last)
            => /\ last.body.owner_email = last.user
               /\ \E id \in DOMAIN notebooks \ DOMAIN last.before :
                    notebooks[id].owner_email = last.user)
    /\ [][\A id \in DOMAIN notebooks :
            /\ id \in DOMAIN notebooks'
            /\ notebooks'[id].owner_email = notebooks[id].owner_email]_vars

\* the owner of a notebook that is shared with someone has just been refused
\* to share it with themselves
C6_Witness ==
    /\ ShareDone
    /\ OwnedIn(notebooks, last.nb, last.user)
    /\ last.arg.recipient_email = last.user
    /\ last.status = 400
    /\ notebooks[last.nb].access_list # <<>>

(***************************************************************************)
(* ShareRaceSpec: create and share requests of several workers, which      *)
(* interleave between their store calls.                                   *)
(***************************************************************************)
RaceRecipients == {Bob}

ShareRaceNext ==
    \E p \in Procs :
        \/ create_notebook_insert(p, Alice, Physics, Noon) /\ Observe(p)
        \/ create_notebook_find(p) /\ Observe(p)
        \/ \E id \in 1..MaxNb, e \in RaceRecipients, perm \in Permissions :
             share_notebook_find_user(p, Alice, id, e, perm) /\ Observe(p)
        \/ share_notebook_find_notebook(p) /\ Observe(p)
        \/ share_notebook_update(p) /\ Observe(p)

ShareRaceSpec == Init /\ [][ShareRaceNext]_vars

\* C5: no access_list holds two entries with the same user_email.
C5_NoDuplicateEntries ==
    \A id \in DOMAIN notebooks :
        \A i, j \in DOMAIN notebooks[id].access_list :
            notebooks[id].access_list[i].user_email
              = notebooks[id].access_list[j].user_email => i = j

\* C2: for a user who is not the owner, an edit entry in the access_list
\* makes check_permission allow view and edit, and a view entry makes it
\* allow view and deny edit.
C2_EntryDecides ==
    \A id \in DOMAIN notebooks : \A u \in Callers :
        u # notebooks[id].owner_email =>
            /\ HasEntryWith(notebooks[id].access_list, u, "edit")
                 => /\ check_permission(notebooks[id], u, "view")
                    /\ check_permission(notebooks[id], u, "edit")
            /\ HasEntryWith(notebooks[id].access_list, u, "view")
                 => /\ check_permission(notebooks[id], u, "view")
                    /\ ~check_permission(notebooks[id], u, "edit")

(***************************************************************************)
(* TagsSpec: one create or tags request against every store that earlier   *)
(* requests can have left: Alice's notebooks, each with a tag list that    *)
(* update_notebook_tags stores for some input.                             *)
(***************************************************************************)
MaxTags == 3        \* length of the tag lists of a request

TagPool == {<<32, 77, 97, 116, 104, 32>>,      \* " Math "
            <<109, 97, 116, 104>>,             \* "math"
            <<>>,                              \* ""
            <<32>>,                            \* " "
            <<77, 97, 116, 104>>}              \* "Math"
TagInputs == UNION {[1..n -> TagPool] : n \in 0..MaxTags}
StoredTagLists == {cleaned_tags(tags) : tags \in TagInputs}

TagsInit ==
    /\ users = Registered
    /\ \E n \in 0..MaxNb :
         /\ notebooks \in [1..n -> {[new_notebook_data(Physics, Alice, Noon)
                                       EXCEPT !.tags = tags] : tags \in StoredTagLists}]
         /\ nextNb = n + 1
    /\ nextNote = 1
    /\ procs = [p \in Procs |-> Idle]
    /\ start = [p \in Procs |-> None]
    /\ last = NoCall
    /\ prev = NoCall

TagsNext ==
    \E p \in SeqProcs :
        \/ \E u \in Owners :
             /\ procs[p].pc = "idle"
             /\ create_notebook_insert(p, u, Physics, Noon) /\ Observe(p)
        \/ create_notebook_find(p) /\ Observe(p)
        \/ \E u \in Owners, id \in NbIds, tags \in TagInputs :
             /\ procs[p].pc = "idle"
             /\ update_notebook_tags_update(p, u, id, tags) /\ Observe(p)
        \/ update_notebook_tags_count(p) /\ Observe(p)
        \/ update_notebook_tags_find(p) /\ Observe(p)

TagsSpec == TagsInit /\ [][TagsNext]_vars

(***************************************************************************)
(* NotesSpec: note requests, one after the other, on Alice's notebooks,    *)
(* which she has shared with Bob (edit) and Carol (view).                  *)
(***************************************************************************)
SharedNotebook ==
    [new_notebook_data(Physics, Alice, Noon)
        EXCEPT !.access_list = <<[user_email |-> Bob, permission |-> "edit"],
                                 [user_email |-> Carol, permission |-> "view"]>>]
NoteIds == 0..(MaxNotes + 1)
Hello == <<104, 105>>       \* "hi"
Bye == <<98, 121, 101>>      \* "bye"

NotesInit ==
    /\ users = Registered
    /\ notebooks = [id \in 1..MaxNb |-> SharedNotebook]
    /\ nextNb = MaxNb + 1
    /\ nextNote = 1
    /\ procs = [p \in Procs |-> Idle]
    /\ start = [p \in Procs |-> None]
    /\ last = NoCall
    /\ prev = NoCall

NotesNext ==
    \E p \in SeqProcs :
        \/ \E u \in Callers, id \in NbIds :
             add_note_find(p, u, id, Hello) /\ Observe(p)
        \/ add_note_push(p, Noon) /\ Observe(p)
        \/ \E u \in Callers, id \in NbIds, n \in NoteIds :
             delete_note_find(p, u, id, n) /\ Observe(p)
        \/ delete_note_pull(p) /\ Observe(p)
        \/ \E u \in Callers, id \in NbIds, n \in NoteIds :
             edit_note_find(p, u, id, n, Bye) /\ Observe(p)
        \/ edit_note_update(p) /\ Observe(p)
        \/ edit_note_return(p) /\ Observe(p)

NotesSpec == NotesInit /\ [][NotesNext]_vars

(***************************************************************************)
(* Claims about update_notebook_tags (TagsSpec).                           *)
(***************************************************************************)
TagsDone == procs[1].pc = "done" /\ last.op = "update_notebook_tags"

\* [" Math ", "math", ""]
MathTags == <<<<32, 77, 97, 116, 104, 32>>, <<109, 97, 116, 104>>, <<>>>>

\* the owner's request with that input has been served
MathTagsSet ==
    /\ TagsDone
    /\ last.arg.tags = MathTags
    /\ OwnedIn(last.before, last.nb, last.user)

\* C8 as claimed: the stored list is ["math"].
C8_Original ==
    MathTagsSet =>
        Succeeded(last) /\ notebooks[last.nb].tags = <<<<109, 97, 116, 104>>>>

\* C8, amended: setTags by the owner with [" Math ", "math", ""] stores
\* exactly ["Math", "math"]: strip() keeps the case, so the two tags differ,
\* and "M" sorts before "m".
C8_StoresMathAndmath ==
    MathTagsSet =>
        /\ Succeeded(last)
        /\ notebooks[last.nb].tags = <<<<77, 97, 116, 104>>, <<109, 97, 116, 104>>>>

\* the request replaced another stored list
C8_Witness ==
    /\ MathTagsSet
    /\ last.status = 200
    /\ last.before[last.nb].tags = <<<<109, 97, 116, 104>>>>
    /\ Len(notebooks[last.nb].tags) = 2

NormalisedTags(tags) ==
    /\ \A i \in DOMAIN tags :
         /\ tags[i] # <<>>
         /\ tags[i][1] \notin Whitespace
         /\ tags[i][Len(tags[i])] \notin Whitespace
    /\ \A i, j \in DOMAIN tags : i < j => tags[i] # tags[j] /\ str_less(tags[i], tags[j])

\* C9: the stored tags of every notebook hold no empty string, no string
\* with leading or trailing whitespace and no duplicate, and ascend by code
\* point; update_notebook_tags succeeds only for the notebook's owner; and a
\* request whose input is the stored list stores that list again.
C9_TagsNormalised ==
    /\ \A id \in DOMAIN notebooks : NormalisedTags(notebooks[id].tags)
    /\ TagsDone =>
         /\ Succeeded(last) => OwnedIn(last.before, last.nb, last.user)
         /\ (Succeeded(last) /\ last.arg.tags = last.before[last.nb].tags)
              => notebooks[last.nb].tags = last.arg.tags

\* the owner sent the two stored tags again
C9_Witness ==
    /\ TagsDone
    /\ last.status = 200
    /\ Len(last.arg.tags) = 2
    /\ last.arg.tags = last.before[last.nb].tags
    /\ notebooks[last.nb].tags = last.arg.tags

(***************************************************************************)
(* Claims about delete_note_from_notebook (NotesSpec).                     *)
(***************************************************************************)
NoteIdsOf(doc) == {doc.notes[i]._id : i \in DOMAIN doc.notes}

\* a delete request with well-formed ids, by a user with edit permission on
\* the notebook, which exists, has been served
DeleteDone ==
    /\ procs[1].pc = "done"
    /\ last.op = "delete_note"
    /\ ObjectId_is_valid(last.arg.note_id)
    /\ last.nb \in DOMAIN last.before
    /\ check_permission(last.before[last.nb], last.user, "edit")

\* C10: for a user with edit permission on an existing notebook, deleting a
\* note id that is not in the notebook reports success and leaves the store
\* as it was; so of two deletions of one note in a row both succeed and the
\* second changes nothing.
C10_DeleteNoteIdempotent ==
    DeleteDone =>
        /\ last.arg.note_id \notin NoteIdsOf(last.before[last.nb])
             => last.status = 204 /\ notebooks = last.before
        /\ prev.op = "delete_note"
             => /\ prev.status = 204
                /\ last.status = 204
                /\ notebooks = last.before

\* Bob, who holds an edit entry, deleted one of two notes twice
C10_Witness ==
    /\ DeleteDone
    /\ prev.op = "delete_note"
    /\ last.user = Bob
    /\ last.arg.note_id \in NoteIdsOf(prev.before[last.nb])
    /\ Len(prev.before[last.nb].notes) = 2
    /\ Len(notebooks[last.nb].notes) = 1
    /\ last.status = 204

(***************************************************************************)
(* PATCH /notebooks/{notebook_id}/visibility: toggle_notebook_visibility   *)
(***************************************************************************)
\* mutant: the update flips the stored value
flip_is_public(id, public_status) ==
    [notebooks EXCEPT ![id].is_public = ~@]

\* {"$set": {"is_public": public_status}}
set_is_public(id, public_status) ==
    [notebooks EXCEPT ![id].is_public = public_status]

\* the id's parse and
\* update_one({"_id": id, "owner_email": user_email}, {"$set": {"is_public": ...}})
toggle_notebook_visibility_update(p, user_email, notebook_id, public_status) ==
    /\ Free(p)
    /\ get_current_user(user_email)
    /\ LET r == Request("toggle_notebook_visibility", user_email, notebook_id,
                        [is_public |-> public_status]) IN
       IF ~ObjectId_is_valid(notebook_id)
       THEN /\ Set(p, Respond(r, 400, None))
            /\ UNCHANGED notebooks
       ELSE IF notebooks_find_one_owned(notebook_id, user_email) # None
       THEN /\ notebooks' = set_is_public(notebook_id, public_status)
            /\ Set(p, Goto(r, "visibility_find", None))
       ELSE /\ Set(p, Goto(r, "visibility_count", None))
            /\ UNCHANGED notebooks
    /\ UNCHANGED <<users, nextNb, nextNote>>

\* matched_count == 0: count_documents({"_id": id}) tells 403 from 404
toggle_notebook_visibility_count(p) ==
    /\ procs[p].pc = "visibility_count"
    /\ Set(p, IF procs[p].nb \in DOMAIN notebooks
              THEN Respond(procs[p], 403, None)
              ELSE Respond(procs[p], 404, None))
    /\ UNCHANGED <<users, notebooks, nextNb, nextNote>>

\* find_one({"_id": id}) for the response; {} for a missing document fails the
\* response model's validation
toggle_notebook_visibility_find(p) ==
    /\ procs[p].pc = "visibility_find"
    /\ LET updated_doc == notebooks_find_one(procs[p].nb) IN
       Set(p, IF updated_doc # None
              THEN Respond(procs[p], 200, updated_doc)
              ELSE Respond(procs[p], 500, None))
    /\ UNCHANGED <<users, notebooks, nextNb, nextNote>>

(***************************************************************************)
(* POST /notebooks/{notebook_id}/like: like_unlike_notebook                *)
(***************************************************************************)
\* mutant: the filter names the _id only
notebooks_find_one_any_visibility(id) ==
    IF id \in DOMAIN notebooks THEN notebooks[id] ELSE None

\* notebooks_coll.find_one({"_id": id, "is_public": True})
notebooks_find_one_public(id) ==
    IF id \in DOMAIN notebooks /\ notebooks[id].is_public
    THEN notebooks[id] ELSE None

\* mutant: every call likes
like_action_always_add(likes_list, user_email) == "$addToSet"

\* action = "$pull" if user_email in likes_list else "$addToSet"
like_action(likes_list, user_email) ==
    IF user_email \in Range(likes_list) THEN "$pull" ELSE "$addToSet"

\* mutant: {"$push": {"likes": user_email}}
push_like(likes, user_email) == Append(likes, user_email)

\* {"$addToSet": {"likes": user_email}}
add_to_set(likes, user_email) ==
    IF user_email \in Range(likes) THEN likes ELSE Append(likes, user_email)

\* {"$pull": {"likes": user_email}}: every occurrence goes
pull_like(likes, user_email) == SelectSeq(likes, LAMBDA email : email # user_email)

\* the id's parse, find_one({"_id": id, "is_public": True}) and the choice of
\* the update from the likes read
like_unlike_notebook_find(p, user_email, notebook_id) ==
    /\ Free(p)
    /\ get_current_user(user_email)
    /\ LET r == Request("like_unlike_notebook", user_email, notebook_id, None)
           notebook_doc == notebooks_find_one_public(notebook_id) IN
       Set(p, IF ~ObjectId_is_valid(notebook_id) THEN Respond(r, 400, None)
              ELSE IF notebook_doc = None THEN Respond(r, 404, None)
              ELSE Goto(r, "like_update",
                        [action |-> like_action(Get(notebook_doc, "likes", <<>>),
                                                user_email)]))
    /\ UNCHANGED <<users, notebooks, nextNb, nextNote>>

\* update_one({"_id": id}, {action: {"likes": user_email}}); matched_count == 0
\* raises 404
like_unlike_notebook_update(p) ==
    /\ procs[p].pc = "like_update"
    /\ LET id == procs[p].nb
           user_email == procs[p].user IN
       IF id \in DOMAIN notebooks
       THEN /\ notebooks' =
                 [notebooks EXCEPT ![id].likes =
                     IF procs[p].loc.action = "$pull"
                     THEN pull_like(@, user_email)
                     ELSE add_to_set(@, user_email)]
            /\ Set(p, Goto(procs[p], "like_return", procs[p].loc))
       ELSE /\ UNCHANGED notebooks
            /\ Set(p, Respond(procs[p], 404, None))
    /\ UNCHANGED <<users, nextNb, nextNote>>

\* find_one({"_id": id}) for the response: the whole document; {} for a
\* missing document fails the response model's validation
like_unlike_notebook_return(p) ==
    /\ procs[p].pc = "like_return"
    /\ LET updated_doc == notebooks_find_one(procs[p].nb) IN
       Set(p, IF updated_doc # None
              THEN Respond(procs[p], 200, updated_doc)
              ELSE Respond(procs[p], 500, None))
    /\ UNCHANGED <<users, notebooks, nextNb, nextNote>>

(***************************************************************************)
(* LikesSpec: like and visibility requests, one after the other, on a      *)
(* notebook of Alice's that earlier requests have filled: a note, a tag,   *)
(* an edit entry for Bob, any visibility and any list of likes.            *)
(***************************************************************************)
Math == <<109, 97, 116, 104>>       \* "math"

LikeLists ==
    {likes \in UNION {[1..n -> Callers] : n \in 0..Cardinality(Callers)} :
        \A i, j \in DOMAIN likes : likes[i] = likes[j] => i = j}

LikedNotebooks ==
    {[new_notebook_data(Physics, Alice, Noon)
        EXCEPT !.notes = <<[_id |-> 1, content |-> Hello, created_at |-> Noon]>>,
               !.access_list = <<[user_email |-> Bob, permission |-> "edit"]>>,
               !.tags = <<Math>>,
               !.is_public = is_public,
               !.likes = likes] : is_public \in BOOLEAN, likes \in LikeLists}

LikesInit ==
    /\ users = Registered
    /\ \E doc \in LikedNotebooks : notebooks = (1 :> doc)
    /\ nextNb = 2
    /\ nextNote = 2
    /\ procs = [p \in Procs |-> Idle]
    /\ start = [p \in Procs |-> None]
    /\ last = NoCall
    /\ prev = NoCall

LikesNext ==
    \E p \in SeqProcs :
        \/ \E u \in Callers, id \in NbIds :
             like_unlike_notebook_find(p, u, id) /\ Observe(p)
        \/ like_unlike_notebook_update(p) /\ Observe(p)
        \/ like_unlike_notebook_return(p) /\ Observe(p)
        \/ \E u \in Callers, id \in NbIds, public_status \in BOOLEAN :
             toggle_notebook_visibility_update(p, u, id, public_status) /\ Observe(p)
        \/ toggle_notebook_visibility_count(p) /\ Observe(p)
        \/ toggle_notebook_visibility_find(p) /\ Observe(p)

LikesSpec == LikesInit /\ [][LikesNext]_vars

(***************************************************************************)
(* LikesRaceSpec: the like requests of Carol, who has no entry in the      *)
(* notebook's access_list, and the visibility requests of Alice and Bob,   *)
(* served by several workers, which interleave between their store calls.  *)
(***************************************************************************)
RaceLikers == {Carol}

LikesRaceNext ==
    \E p \in Procs :
        \/ \E u \in RaceLikers :
             like_unlike_notebook_find(p, u, 1) /\ Unobserved
        \/ like_unlike_notebook_update(p) /\ Unobserved
        \/ like_unlike_notebook_return(p) /\ Unobserved
        \/ \E u \in Owners, public_status \in BOOLEAN :
             toggle_notebook_visibility_update(p, u, 1, public_status) /\ Unobserved
        \/ toggle_notebook_visibility_count(p) /\ Unobserved
        \/ toggle_notebook_visibility_find(p) /\ Unobserved

LikesRaceSpec == LikesInit /\ [][LikesRaceNext]_vars

(***************************************************************************)
(* Claims about like_unlike_notebook and toggle_notebook_visibility.       *)
(***************************************************************************)
PublicIn(store, id) == id \in DOMAIN store /\ store[id].is_public

\* the request recorded last is a like request that was served alone, and
\* nothing has been served since
LikeDone == Quiet /\ last.op = "like_unlike_notebook" /\ last.alone

\* two like requests of one user for one notebook, which was public, one
\* after the other with nothing in between
LikedTwice ==
    /\ LikeDone
    /\ prev.op = "like_unlike_notebook"
    /\ prev.alone
    /\ PublicIn(prev.before, last.nb)

\* C11: two like requests in a row by one user on a public notebook both
\* succeed and leave the set of the notebook's likes as it was before the
\* first, whether the user had liked it or not.
C11_LikeTwiceRestores ==
    LikedTwice =>
        /\ Succeeded(prev) /\ Succeeded(last)
        /\ Range(notebooks[last.nb].likes) = Range(prev.before[last.nb].likes)

\* the user was the first of two who liked it: the set is back, the order is not
C11_Witness ==
    /\ LikedTwice
    /\ Len(prev.before[last.nb].likes) = 2
    /\ prev.before[last.nb].likes[1] = last.user
    /\ notebooks[last.nb].likes[2] = last.user
    /\ Range(last.before[last.nb].likes) # Range(notebooks[last.nb].likes)

\* C12: a like request for a notebook that is private or absent fails and
\* leaves the store as it was; for a public notebook it succeeds, takes the
\* caller out of the likes if the caller was in them and puts the caller in
\* otherwise, and changes nobody else's membership and nothing else.
C12_LikeToggles ==
    LikeDone =>
        IF PublicIn(last.before, last.nb)
        THEN /\ Succeeded(last)
             /\ Range(notebooks[last.nb].likes) =
                  IF last.user \in Range(last.before[last.nb].likes)
                  THEN Range(last.before[last.nb].likes) \ {last.user}
                  ELSE Range(last.before[last.nb].likes) \cup {last.user}
             /\ [notebooks EXCEPT ![last.nb].likes = <<>>]
                  = [last.before EXCEPT ![last.nb].likes = <<>>]
        ELSE /\ ~Succeeded(last)
             /\ notebooks = last.before

\* Bob, who had liked the notebook before it became private, is refused
C12_Witness ==
    /\ LikeDone
    /\ last.nb \in DOMAIN last.before
    /\ ~last.before[last.nb].is_public
    /\ last.user \in Range(last.before[last.nb].likes)
    /\ last.status = 404
    /\ notebooks = last.before

\* the request recorded last is a visibility request that was served alone
VisibilityDone == Quiet /\ last.op = "toggle_notebook_visibility" /\ last.alone

\* C16: a visibility request by the notebook's owner succeeds and changes
\* nothing but is_public, which then has the requested value; a request by
\* anybody else fails and changes nothing.
C16_VisibilityOwnerOnly ==
    VisibilityDone =>
        IF OwnedIn(last.before, last.nb, last.user)
        THEN /\ Succeeded(last)
             /\ notebooks[last.nb].is_public = last.arg.is_public
             /\ notebooks = [last.before EXCEPT ![last.nb].is_public = last.arg.is_public]
             /\ last.body = notebooks[last.nb]
        ELSE /\ ~Succeeded(last)
             /\ notebooks = last.before

\* Bob, who holds an edit entry, was refused; the notebook keeps its notes,
\* tags, likes and visibility
C16_Witness ==
    /\ VisibilityDone
    /\ last.user = Bob
    /\ last.nb \in DOMAIN last.before
    /\ last.arg.is_public # last.before[last.nb].is_public
    /\ last.status = 403
    /\ notebooks = last.before
    /\ notebooks[last.nb].likes # <<>>

\* C13: the likes of no notebook hold one email twice.
C13_NoDuplicateLikes ==
    \A id \in DOMAIN notebooks :
        \A i, j \in DOMAIN notebooks[id].likes :
            notebooks[id].likes[i] = notebooks[id].likes[j] => i = j

\* two like requests of one user both read the likes without the user, and
\* both have written
C13_Witness ==
    \E p, q \in Procs :
        /\ p # q
        /\ procs[p].pc = "like_return" /\ procs[q].pc = "like_return"
        /\ procs[p].user = procs[q].user
        /\ procs[p].loc.action = "$addToSet" /\ procs[q].loc.action = "$addToSet"
        /\ procs[p].user \in Range(notebooks[1].likes)

(***************************************************************************)
(* Claims about add_note_to_notebook and edit_note_in_notebook             *)
(* (NotesSpec).                                                            *)
(***************************************************************************)
DocIn(store, id) == IF id \in DOMAIN store THEN store[id] ELSE None

\* the request recorded last is an add request that was served alone
AddDone == Quiet /\ last.op = "add_note" /\ last.alone

\* C14: add_note succeeds only for a caller whom check_permission allows to
\* edit; anybody else, a holder of a view entry included, gets 403 and the
\* store stays as it was; a success appends one note at the end of the
\* notebook's notes, with the request's content and an _id that no note of
\* the notebook had, and changes nothing else.
C14_AddNoteNeedsEdit ==
    AddDone =>
        IF ~check_permission(DocIn(last.before, last.nb), last.user, "edit")
        THEN /\ ~Succeeded(last)
             /\ last.nb \in DOMAIN last.before => last.status = 403
             /\ notebooks = last.before
        ELSE /\ last.status = 200
             /\ last.body.content = last.arg.content
             /\ last.body._id \notin NoteIdsOf(last.before[last.nb])
             /\ notebooks = [last.before EXCEPT ![last.nb].notes = Append(@, last.body)]

\* Bob, who holds an edit entry, added a note after another one
C14_Witness ==
    /\ AddDone
    /\ last.user = Bob
    /\ last.status = 200
    /\ Len(last.before[last.nb].notes) = 1
    /\ Len(notebooks[last.nb].notes) = 2
    /\ notebooks[last.nb].notes[2] = last.body

\* an edit request with well-formed ids that was served alone is recorded last
EditDone ==
    /\ Quiet
    /\ last.op = "edit_note"
    /\ last.alone
    /\ ObjectId_is_valid(last.nb)
    /\ ObjectId_is_valid(last.arg.note_id)

\* C15: edit_note fails and changes nothing for a caller without edit
\* permission; with it, it answers 404 and changes nothing when the notebook
\* has no note with the id, and otherwise succeeds, answers the note and
\* changes the content of that note only: its _id and created_at, the other
\* notes and the order stay.
C15_EditNoteContentOnly ==
    EditDone =>
        IF ~check_permission(DocIn(last.before, last.nb), last.user, "edit")
        THEN ~Succeeded(last) /\ notebooks = last.before
        ELSE IF last.arg.note_id \notin NoteIdsOf(last.before[last.nb])
        THEN last.status = 404 /\ notebooks = last.before
        ELSE /\ last.status = 200
             /\ notebooks =
                  [last.before EXCEPT ![last.nb].notes =
                      [i \in DOMAIN @ |->
                          IF @[i]._id = last.arg.note_id
                          THEN [@[i] EXCEPT !.content = last.arg.content]
                          ELSE @[i]]]
             /\ last.body \in Range(notebooks[last.nb].notes)
             /\ last.body._id = last.arg.note_id

\* Bob changed the second of two notes
C15_Witness ==
    /\ EditDone
    /\ last.user = Bob
    /\ last.status = 200
    /\ Len(last.before[last.nb].notes) = 2
    /\ last.before[last.nb].notes[2]._id = last.arg.note_id
    /\ last.before[last.nb].notes[2].content # last.arg.content
    /\ notebooks[last.nb].notes[2].content = last.arg.content
    /\ notebooks[last.nb].notes[1] = last.before[last.nb].notes[1]

(***************************************************************************)
(* DELETE /notebooks/{notebook_id}: delete_notebook                        *)
(***************************************************************************)
\* mutant: the filter names the _id only
delete_one_matches_any_owner(id, user_email) == id \in DOMAIN notebooks

\* the filter {"_id": id, "owner_email": user_email} of delete_one
delete_one_matches(id, user_email) ==
    id \in DOMAIN notebooks /\ notebooks[id].owner_email = user_email

\* the id's parse and delete_one(filter)
delete_notebook_delete(p, user_email, notebook_id) ==
    /\ Free(p)
    /\ get_current_user(user_email)
    /\ LET r == Request("delete_notebook", user_email, notebook_id, None) IN
       IF ~ObjectId_is_valid(notebook_id)
       THEN /\ Set(p, Respond(r, 400, None))
            /\ UNCHANGED notebooks
       ELSE IF delete_one_matches(notebook_id, user_email)
       THEN /\ notebooks' = [id \in DOMAIN notebooks \ {notebook_id} |-> notebooks[id]]
            /\ Set(p, Respond(r, 204, None))
       ELSE /\ Set(p, Goto(r, "delete_count", None))
            /\ UNCHANGED notebooks
    /\ UNCHANGED <<users, nextNb, nextNote>>

\* deleted_count == 0: count_documents({"_id": id}) tells 403 from 404
delete_notebook_count(p) ==
    /\ procs[p].pc = "delete_count"
    /\ Set(p, IF procs[p].nb \in DOMAIN notebooks
              THEN Respond(procs[p], 403, None)
              ELSE Respond(procs[p], 404, None))
    /\ UNCHANGED <<users, notebooks, nextNb, nextNote>>

(***************************************************************************)
(* GET /notebooks and GET /notebooks/shared.  find() yields the documents  *)
(* in the store's order, which nothing fixes: a response is the documents  *)
(* by _id.                                                                 *)
(***************************************************************************)
\* find({"owner_email": user_email})
get_user_notebooks(p, user_email) ==
    /\ Free(p)
    /\ get_current_user(user_email)
    /\ LET r == Request("get_user_notebooks", user_email, 0, None)
           found == {id \in DOMAIN notebooks : notebooks[id].owner_email = user_email}
       IN Set(p, Respond(r, 200, [id \in found |-> notebooks[id]]))
    /\ UNCHANGED <<users, notebooks, nextNb, nextNote>>

\* find({"owner_email": {"$ne": user_email},
\*       "access_list": {"$elemMatch": {"user_email": user_email}}})
get_shared_notebooks(p, user_email) ==
    /\ Free(p)
    /\ get_current_user(user_email)
    /\ LET r == Request("get_shared_notebooks", user_email, 0, None)
           found == {id \in DOMAIN notebooks :
                        /\ notebooks[id].owner_email # user_email
                        /\ \E i \in DOMAIN notebooks[id].access_list :
                             notebooks[id].access_list[i].user_email = user_email}
       IN Set(p, Respond(r, 200, [id \in found |-> notebooks[id]]))
    /\ UNCHANGED <<users, notebooks, nextNb, nextNote>>

(***************************************************************************)
(* GET /notebooks/public/search: search_public_notebooks                   *)
(***************************************************************************)
SearchLimit == 50

\* "$options": "i", on the ASCII letters
lower(c) == IF c \in 65..90 THEN c + 32 ELSE c

\* The queries of the model hold letters, digits, blanks and, of the
\* characters with a meaning in a regular expression, "." (any character) and
\* "(" (which opens a group; no query closes one, so the store rejects the
\* pattern).
regex_is_valid(pattern) == 40 \notin Range(pattern)

regex_matches_at(pattern, str, i) ==
    \A k \in DOMAIN pattern :
        pattern[k] = 46 \/ lower(pattern[k]) = lower(str[i + k])

\* {"$regex": pattern, "$options": "i"} on a string: the pattern matches
\* somewhere in it
regex_search(pattern, str) ==
    \E i \in 0..(Len(str) - Len(pattern)) : regex_matches_at(pattern, str, i)

\* the $or of the regex on name and on tags (an array matches when an
\* element does)
matches_query(doc, pattern) ==
    \/ regex_search(pattern, doc.name)
    \/ \E t \in DOMAIN Get(doc, "tags", <<>>) : regex_search(pattern, doc.tags[t])

\* "like_count": {"$size": {"$ifNull": ["$likes", []]}}
like_count(doc) == Len(Get(doc, "likes", <<>>))

\* {"$sort": {"like_count": -1, "name": 1}}: a before b
sort_before(a, b) ==
    \/ like_count(a) > like_count(b)
    \/ like_count(a) = like_count(b) /\ str_less(a.name, b.name)

\* the orders in which $sort may yield the documents: it does not say how it
\* orders documents with equal keys
RECURSIVE sort_orders(_)
sort_orders(ids) ==
    IF ids = {} THEN {<<>>}
    ELSE UNION {{<<first>> \o rest : rest \in sort_orders(ids \ {first})} :
                  first \in {x \in ids :
                               \A y \in ids : ~sort_before(notebooks[y], notebooks[x])}}

\* $project without "notes"; the response model then fills in notes = []
project_without_notes(id) ==
    [_id |-> id, name |-> notebooks[id].name,
     owner_email |-> notebooks[id].owner_email,
     created_at |-> notebooks[id].created_at,
     access_list |-> Get(notebooks[id], "access_list", <<>>),
     is_public |-> notebooks[id].is_public,
     tags |-> Get(notebooks[id], "tags", <<>>),
     likes |-> Get(notebooks[id], "likes", <<>>),
     notes |-> <<>>]

\* query: Optional[str] is None or a string, Str(s); "if query:" holds for a
\* string that is not empty
Str(s) == [str |-> s]
truthy(query) == query # None /\ query.str # <<>>

\* mutant: the pipeline without its $limit stage
limit_none(results) == results

\* {"$limit": 50}
limit(results) ==
    SubSeq(results, 1, IF Len(results) < SearchLimit THEN Len(results) ELSE SearchLimit)

\* mutant: the filter without is_public
search_filter_any_visibility(doc, query) ==
    IF truthy(query) THEN matches_query(doc, strip(query.str)) ELSE TRUE

\* filter_query: {"is_public": True}, and the $or when the query is not empty
search_filter(doc, query) ==
    /\ doc.is_public
    /\ IF truthy(query) THEN matches_query(doc, strip(query.str)) ELSE TRUE

\* aggregate(pipeline): one call on the store; a pattern that the store
\* rejects raises, and the except clause answers 500
search_public_notebooks(p, user_email, query) ==
    /\ Free(p)
    /\ get_current_user(user_email)
    /\ LET r == Request("search_public_notebooks", user_email, 0, [query |-> query]) IN
       IF truthy(query) /\ ~regex_is_valid(strip(query.str))
       THEN Set(p, Respond(r, 500, None))
       ELSE \E order \in sort_orders({id \in DOMAIN notebooks :
                                         search_filter(notebooks[id], query)}) :
              Set(p, Respond(r, 200,
                    limit([i \in DOMAIN order |-> project_without_notes(order[i])])))
    /\ UNCHANGED <<users, notebooks, nextNb, nextNote>>

(***************************************************************************)
(* DeleteSpec: create, delete, listing, search and add-note requests, one   *)
(* after the other, on a store that holds notebooks of Alice's which are   *)
(* public and shared with Bob (edit) and Carol (view).                     *)
(***************************************************************************)
PublishedNotebook ==
    [SharedNotebook EXCEPT
        !.notes = <<[_id |-> 1, content |-> Hello, created_at |-> Noon]>>,
        !.is_public = TRUE]

DeleteInit ==
    /\ users = Registered
    /\ \E n \in 0..MaxNb :
         /\ notebooks = [id \in 1..n |-> PublishedNotebook]
         /\ nextNb = n + 1
    /\ nextNote = 2
    /\ procs = [p \in Procs |-> Idle]
    /\ start = [p \in Procs |-> None]
    /\ last = NoCall
    /\ prev = NoCall

DeleteNext ==
    \E p \in SeqProcs :
        \/ \E u \in Owners : create_notebook_insert(p, u, Physics, Noon) /\ Observe(p)
        \/ create_notebook_find(p) /\ Observe(p)
        \/ \E u \in Callers, id \in NbIds :
             delete_notebook_delete(p, u, id) /\ Observe(p)
        \/ delete_notebook_count(p) /\ Observe(p)
        \/ \E u \in Callers : get_user_notebooks(p, u) /\ Observe(p)
        \/ \E u \in Callers : get_shared_notebooks(p, u) /\ Observe(p)
        \/ \E u \in Callers : search_public_notebooks(p, u, None) /\ Observe(p)
        \/ \E id \in NbIds : add_note_find(p, Bob, id, Hello) /\ Observe(p)
        \/ add_note_push(p, Noon) /\ Observe(p)

DeleteSpec == DeleteInit /\ [][DeleteNext]_vars

(***************************************************************************)
(* Claims about delete_notebook (DeleteSpec).                              *)
(***************************************************************************)
\* the ids that the store has assigned and no longer holds
DeletedIn(store) == {id \in 1..(nextNb - 1) : id \notin DOMAIN store}

\* the ids of the notebooks in the response of a listing or a search
ListedIds(c) ==
    IF c.op = "search_public_notebooks"
    THEN {c.body[i]._id : i \in DOMAIN c.body}
    ELSE DOMAIN c.body

Listings == {"get_user_notebooks", "get_shared_notebooks", "search_public_notebooks"}

\* C17: a delete request by the notebook's owner removes that notebook and
\* nothing else; a request by anybody else, a holder of an edit entry
\* included, fails and leaves the store as it was; a notebook that is gone
\* stays gone, and no listing and no search made afterwards names it.
C17_DeleteOwnerOnly ==
    /\ [](Quiet /\ last.op = "delete_notebook" /\ last.alone
            => IF OwnedIn(last.before, last.nb, last.user)
               THEN /\ last.status = 204
                    /\ notebooks = [id \in DOMAIN last.before \ {last.nb} |->
                                       last.before[id]]
               ELSE /\ ~Succeeded(last)
                    /\ notebooks = last.before)
    /\ [](Quiet /\ last.op \in Listings /\ Succeeded(last)
            => ListedIds(last) \cap DeletedIn(last.before) = {})
    /\ [][\A id \in DeletedIn(notebooks) : id \notin DOMAIN notebooks']_vars

\* Bob, with whom the notebook had been shared, lists the notebooks shared
\* with him after the owner deleted it
C17_Witness ==
    /\ Quiet
    /\ last.op = "get_shared_notebooks"
    /\ last.user = Bob
    /\ 1 \in DeletedIn(last.before)
    /\ ListedIds(last) = {}

(***************************************************************************)
(* SearchSpec: search requests against every small store of notebooks with *)
(* the names, tags, likes and visibilities below, and against stores with  *)
(* as many public notebooks as the search returns at most, and one more.   *)
(***************************************************************************)
MaxSearch == 2      \* notebooks of a small store

Physics101 == <<80, 104, 121, 115, 105, 99, 115, 32, 49, 48, 49>>  \* "Physics 101"
Chemistry == <<67, 104, 101, 109, 105, 115, 116, 114, 121>>        \* "Chemistry"
physics == <<112, 104, 121, 115, 105, 99, 115>>                    \* "physics"

SearchNotebooks ==
    {[PublishedNotebook EXCEPT !.name = name, !.tags = tags, !.likes = likes,
                               !.is_public = is_public] :
        name \in {Physics101, Chemistry}, tags \in {<<>>, <<physics>>},
        likes \in {<<>>, <<Bob>>}, is_public \in BOOLEAN}

\* "00", "01", ...: the names of the notebooks of a large store
TwoDigits(i) == <<48 + (i \div 10), 48 + (i % 10)>>

LargeStore(n) ==
    [i \in 1..n |->
        [PublishedNotebook EXCEPT !.name = TwoDigits(i),
                                  !.likes = IF i % 2 = 0 THEN <<Bob>> ELSE <<>>]]

Queries ==
    {None,
     Str(<<>>),                         \* ""
     Str(<<112, 104, 121, 115>>),       \* "phys"
     Str(<<80, 72, 89, 83>>),           \* "PHYS"
     Str(<<99, 104, 101, 109, 32>>),    \* "chem "
     Str(<<32>>),                       \* " "
     Str(<<46>>),                       \* "."
     Str(<<40>>)}                       \* "("

SearchInit ==
    /\ users = Registered
    /\ \/ \E n \in 0..MaxSearch : notebooks \in [1..n -> SearchNotebooks]
       \/ \E n \in {SearchLimit, SearchLimit + 1} : notebooks = LargeStore(n)
    /\ nextNb = Len(notebooks) + 1
    /\ nextNote = 2
    /\ procs = [p \in Procs |-> Idle]
    /\ start = [p \in Procs |-> None]
    /\ last = NoCall
    /\ prev = NoCall

SearchNext ==
    \E p \in SeqProcs, query \in Queries :
        search_public_notebooks(p, Bob, query) /\ Unobserved

SearchSpec == SearchInit /\ [][SearchNext]_vars

(***************************************************************************)
(* Claims about search_public_notebooks (SearchSpec).                      *)
(***************************************************************************)
\* a search has been answered with a list
SearchDone ==
    /\ procs[1].pc = "done"
    /\ procs[1].op = "search_public_notebooks"
    /\ procs[1].resp.status = 200

SearchResults == procs[1].resp.body
ResultIds == {SearchResults[i]._id : i \in DOMAIN SearchResults}
PublicIds == {id \in DOMAIN notebooks : notebooks[id].is_public}

\* more likes first, and of two with as many likes the lesser name first
RankedBefore(a, b) ==
    \/ Len(a.likes) > Len(b.likes)
    \/ Len(a.likes) = Len(b.likes) /\ str_less(a.name, b.name)

\* the list names stored notebooks, none twice, in the order of the ranking
RankedList ==
    /\ ResultIds \subseteq DOMAIN notebooks
    /\ \A i, j \in DOMAIN SearchResults :
         /\ SearchResults[i]._id = SearchResults[j]._id => i = j
         /\ i < j => ~RankedBefore(notebooks[SearchResults[j]._id],
                                   notebooks[SearchResults[i]._id])

\* the list holds the first `most` of the notebooks in `ids`, or all of them
FirstOf(ids, most) ==
    /\ ResultIds \subseteq ids
    /\ Len(SearchResults) = IF Cardinality(ids) < most THEN Cardinality(ids) ELSE most
    /\ \A left \in ids \ ResultIds : \A id \in ResultIds :
         ~RankedBefore(notebooks[left], notebooks[id])

\* C18: a search returns public notebooks only, by likes descending and then
\* by name ascending, at most 50 of them, which are the first 50 of the
\* matching notebooks in that order, and none with its stored notes.
C18_SearchRankedCapped ==
    SearchDone =>
        /\ ResultIds \subseteq PublicIds
        /\ RankedList
        /\ Len(SearchResults) <= 50
        /\ FirstOf({id \in DOMAIN notebooks :
                       search_filter(notebooks[id], procs[1].arg.query)}, 50)
        /\ \A i \in DOMAIN SearchResults :
             /\ SearchResults[i].notes = <<>>
             /\ SearchResults[i].name = notebooks[SearchResults[i]._id].name

\* of 51 public notebooks, which all have a note, the one ranked last is left
\* out
C18_Witness ==
    /\ SearchDone
    /\ procs[1].arg.query = None
    /\ Cardinality(PublicIds) = 51
    /\ Len(SearchResults) = 50
    /\ PublicIds \ ResultIds = {51}
    /\ \A id \in PublicIds : notebooks[id].notes # <<>>

\* C19 as claimed: a search without a query returns all public notebooks,
\* however many there are, in the order of the ranking.
C19_Original ==
    SearchDone /\ procs[1].arg.query = None =>
        ResultIds = PublicIds /\ RankedList

\* C19, amended: a search without a query returns all public notebooks when
\* there are at most 50 and the first 50 of the ranking otherwise, by likes
\* descending and then by name ascending.
C19_SearchAllUpToLimit ==
    SearchDone /\ procs[1].arg.query = None =>
        /\ RankedList
        /\ FirstOf(PublicIds, 50)
        /\ Cardinality(PublicIds) <= 50 => ResultIds = PublicIds

\* all of exactly 50 public notebooks are returned
C19_Witness ==
    /\ SearchDone
    /\ procs[1].arg.query = None
    /\ Cardinality(PublicIds) = 50
    /\ ResultIds = PublicIds
    /\ SearchResults[1].likes # <<>>
    /\ SearchResults[50].likes = <<>>

\* q occurs in str, letters compared without their case
contains_ignoring_case(q, str) ==
    \E i \in 0..(Len(str) - Len(q)) :
        \A k \in DOMAIN q : lower(q[k]) = lower(str[i + k])

\* C20: a search with a query q is answered with the public notebooks in
\* whose name or in one of whose tags q occurs, letters compared without
\* their case, whatever characters q holds.
C20_SubstringMatch ==
    procs[1].pc = "done" /\ procs[1].op = "search_public_notebooks"
      /\ procs[1].arg.query # None /\ Cardinality(PublicIds) <= 50
    => /\ procs[1].resp.status = 200
       /\ ResultIds =
            {id \in PublicIds :
                \/ contains_ignoring_case(procs[1].arg.query.str, notebooks[id].name)
                \/ \E t \in DOMAIN notebooks[id].tags :
                     contains_ignoring_case(procs[1].arg.query.str,
                                            notebooks[id].tags[t])}

(***************************************************************************)
(* GET /notes/by-date/{date_str}: get_notes_by_date.  Times are hours     *)
(* since an epoch's midnight (UTC); a date string that strptime accepts   *)
(* is the number of its day, any other string is None.                    *)
(***************************************************************************)
Day == 24       \* timedelta(days=1)

\* datetime.strptime(date_str, "%Y-%m-%d").replace(tzinfo=timezone.utc)
target_date(date) == Day * date

\* mutant: {"$gte": start_of_day, "$lte": end_of_day}
in_range_closed(created_at, start_of_day, end_of_day) ==
    start_of_day <= created_at /\ created_at <= end_of_day

\* {"$gte": start_of_day, "$lt": end_of_day}
in_range(created_at, start_of_day, end_of_day) ==
    start_of_day <= created_at /\ created_at < end_of_day

\* {"$match": {"owner_email": user_email}}, {"$unwind": "$notes"}: the notes
\* of the caller's own notebooks (a note's _id is a fresh ObjectId, so no two
\* unwound notes are equal)
unwind_own_notes(user_email) ==
    UNION {Range(notebooks[id].notes) :
             id \in {n \in DOMAIN notebooks : notebooks[n].owner_email = user_email}}

\* {"$sort": {"created_at": 1}}: every order of the notes that is ascending in
\* created_at; the sort fixes no order among notes of one time
RECURSIVE sort_by_created_at(_)
sort_by_created_at(notes) ==
    IF notes = {} THEN {<<>>}
    ELSE UNION {{<<first>> \o rest : rest \in sort_by_created_at(notes \ {first})} :
                  first \in {n \in notes :
                               \A o \in notes : n.created_at <= o.created_at}}

\* the whole handler: the date's parse (ValueError: 400) and one aggregate
get_notes_by_date(p, user_email, date_str) ==
    /\ Free(p)
    /\ get_current_user(user_email)
    /\ LET r == Request("get_notes_by_date", user_email, 0, [date_str |-> date_str]) IN
       IF date_str = None
       THEN Set(p, Respond(r, 400, None))
       ELSE LET start_of_day == target_date(date_str.day)
                end_of_day == start_of_day + Day
                matched == {n \in unwind_own_notes(user_email) :
                              in_range(n.created_at, start_of_day, end_of_day)} IN
            \E notes_for_date \in sort_by_created_at(matched) :
                Set(p, Respond(r, 200, notes_for_date))
    /\ UNCHANGED <<users, notebooks, nextNb, nextNote>>

(***************************************************************************)
(* DateSpec: notes-by-date requests against stores of two notebooks, one   *)
(* of Alice's and one of Bob's, each shared with the other, whose notes    *)
(* were written around the two midnights of day 1.                         *)
(***************************************************************************)
MaxDateNotes == 2       \* notes of a notebook

Stamps == {Day - 1, Day, 2 * Day - 1, 2 * Day}

\* the creation times of a notebook's notes
StampLists ==
    UNION {[1..n -> Stamps] : n \in 0..MaxDateNotes}

\* the notes of notebook id; their ids are distinct over the store
NotesAt(id, stamps) ==
    [i \in DOMAIN stamps |->
        [_id |-> (id - 1) * MaxDateNotes + i, content |-> Hello,
         created_at |-> stamps[i]]]

DatedNotebook(id, owner_email, other_email, stamps) ==
    [new_notebook_data(Physics, owner_email, 0) EXCEPT
        !.notes = NotesAt(id, stamps),
        !.access_list = <<[user_email |-> other_email, permission |-> "edit"]>>]

\* date_str: three days, and a string that is no date
Dates == {None} \cup {[day |-> d] : d \in 0..2}

DateInit ==
    /\ users = Registered
    /\ \E s1 \in StampLists, s2 \in StampLists :
         notebooks = <<DatedNotebook(1, Alice, Bob, s1), DatedNotebook(2, Bob, Alice, s2)>>
    /\ nextNb = 3
    /\ nextNote = 2 * MaxDateNotes + 1
    /\ procs = [p \in Procs |-> Idle]
    /\ start = [p \in Procs |-> None]
    /\ last = NoCall
    /\ prev = NoCall

DateNext ==
    \E p \in SeqProcs, u \in Callers, date_str \in Dates :
        get_notes_by_date(p, u, date_str) /\ Unobserved

DateSpec == DateInit /\ [][DateNext]_vars

(***************************************************************************)
(* Claims about get_notes_by_date (DateSpec).                              *)
(***************************************************************************)
DateDone ==
    /\ procs[1].pc = "done"
    /\ procs[1].op = "get_notes_by_date"
    /\ procs[1].arg.date_str # None

\* the notes of the notebooks that user_email owns
OwnNotes(user_email) ==
    {note \in UNION {Range(notebooks[id].notes) : id \in DOMAIN notebooks} :
        \E id \in DOMAIN notebooks :
            /\ notebooks[id].owner_email = user_email
            /\ note \in Range(notebooks[id].notes)}

\* C21: notes-by-date for a date D returns exactly the notes of the caller's
\* own notebooks that were created at or after D 00:00 UTC and before the
\* next day's 00:00 UTC, each once, in ascending order of creation time.
C21_NotesOfTheDay ==
    DateDone =>
        LET D == procs[1].arg.date_str.day
            body == procs[1].resp.body IN
        /\ procs[1].resp.status = 200
        /\ Range(body) = {note \in OwnNotes(procs[1].user) :
                            24 * D <= note.created_at /\ note.created_at < 24 * (D + 1)}
        /\ \A i, j \in DOMAIN body :
             /\ i < j => body[i].created_at <= body[j].created_at
             /\ body[i] = body[j] => i = j

\* Alice asks for day 1: her notebook holds a note of the day's first hour and
\* one of the next midnight, Bob's notebook, which she may edit, holds a note
\* of the day; she gets her first note only
C21_Witness ==
    /\ DateDone
    /\ procs[1].user = Alice
    /\ procs[1].arg.date_str.day = 1
    /\ \E i, j \in DOMAIN notebooks[1].notes :
         /\ notebooks[1].notes[i].created_at = 24
         /\ notebooks[1].notes[j].created_at = 48
    /\ \E i \in DOMAIN notebooks[2].notes : notebooks[2].notes[i].created_at = 47
    /\ Len(procs[1].resp.body) = 1
    /\ procs[1].resp.body[1].created_at = 24

(***************************************************************************)
(* GET /notebooks/{notebook_id}: get_single_notebook                       *)
(***************************************************************************)
\* the id's parse, find_one({"_id": id}) and the view permission test, which
\* a missing notebook fails before the handler tests for it
get_single_notebook(p, user_email, notebook_id) ==
    /\ Free(p)
    /\ get_current_user(user_email)
    /\ LET r == Request("get_single_notebook", user_email, notebook_id, None)
           notebook_doc == notebooks_find_one(notebook_id) IN
       Set(p, IF ~ObjectId_is_valid(notebook_id) THEN Respond(r, 400, None)
              ELSE IF ~check_permission(notebook_doc, user_email, "view")
              THEN Respond(r, 403, None)
              ELSE IF notebook_doc # None THEN Respond(r, 200, notebook_doc)
              ELSE Respond(r, 404, None))
    /\ UNCHANGED <<users, notebooks, nextNb, nextNote>>

(***************************************************************************)
(* GET /notebooks/{notebook_id}/pdf: generate_notebook_pdf.  The document  *)
(* is rendered from the notebook's name and notes; rendering succeeds or   *)
(* fails (a missing font file, an FPDF error) with a 500.                  *)
(***************************************************************************)
generate_notebook_pdf(p, user_email, notebook_id) ==
    /\ Free(p)
    /\ get_current_user(user_email)
    /\ LET r == Request("generate_notebook_pdf", user_email, notebook_id, None)
           notebook_doc == notebooks_find_one(notebook_id) IN
       IF ~ObjectId_is_valid(notebook_id) THEN Set(p, Respond(r, 400, None))
       ELSE IF ~check_permission(notebook_doc, user_email, "view")
       THEN Set(p, Respond(r, 403, None))
       ELSE \/ Set(p, Respond(r, 200, [name |-> notebook_doc.name,
                                       notes |-> Get(notebook_doc, "notes", <<>>)]))
            \/ Set(p, Respond(r, 500, None))
    /\ UNCHANGED <<users, notebooks, nextNb, nextNote>>

(***************************************************************************)
(* POST /notebooks/{notebook_id}/quiz: generate_notebook_quiz.  The quiz   *)
(* is the answer of an external service to the notes' text: the service is *)
(* not configured (503), answers a well-formed quiz, or fails (500).       *)
(***************************************************************************)
SeparatorLen == 7       \* len("\n\n---\n\n")
MinQuizText == 50

\* len("\n\n---\n\n".join(contents))
RECURSIVE joined_len(_)
joined_len(notes) ==
    IF notes = <<>> THEN 0
    ELSE IF Len(notes) = 1 THEN Len(notes[1].content)
    ELSE Len(notes[1].content) + SeparatorLen + joined_len(Tail(notes))

generate_notebook_quiz(p, user_email, notebook_id) ==
    /\ Free(p)
    /\ get_current_user(user_email)
    /\ LET r == Request("generate_notebook_quiz", user_email, notebook_id, None)
           notebook_doc == notebooks_find_one(notebook_id) IN
       IF ~ObjectId_is_valid(notebook_id) THEN Set(p, Respond(r, 400, None))
       ELSE IF ~check_permission(notebook_doc, user_email, "view")
       THEN Set(p, Respond(r, 403, None))
       ELSE LET notes == Get(notebook_doc, "notes", <<>>) IN
            IF notes = <<>> THEN Set(p, Respond(r, 400, None))
            ELSE IF joined_len(notes) < MinQuizText THEN Set(p, Respond(r, 400, None))
            ELSE \/ Set(p, Respond(r, 503, None))
                 \/ Set(p, Respond(r, 200, [questions_about |-> notes]))
                 \/ Set(p, Respond(r, 500, None))
    /\ UNCHANGED <<users, notebooks, nextNb, nextNote>>

(***************************************************************************)
(* ErrorSpec: one request, of every notebook operation by every user on    *)
(* every id, against every store of notebooks of Alice's that are private  *)
(* or public and shared with Carol (view), most of them with Bob (edit).   *)
(***************************************************************************)
\* a note long enough for a quiz
Essay == [i \in 1..MinQuizText |-> 97]

ErrorNotebooks ==
    {SharedNotebook, PublishedNotebook,
     [SharedNotebook EXCEPT !.access_list = <<[user_email |-> Carol, permission |-> "view"]>>],
     [PublishedNotebook EXCEPT !.notes = <<[_id |-> 1, content |-> Essay,
                                            created_at |-> Noon]>>]}

ErrorInit ==
    /\ users = Registered
    /\ \E n \in 0..MaxNb : notebooks \in [1..n -> ErrorNotebooks]
    /\ nextNb = Len(notebooks) + 1
    /\ nextNote = 2
    /\ procs = [p \in Procs |-> Idle]
    /\ start = [p \in Procs |-> None]
    /\ last = NoCall
    /\ prev = NoCall

ErrorNext ==
    \E p \in SeqProcs :
        \/ \E u \in Callers, id \in NbIds :
             /\ procs[p].pc = "idle"
             /\ get_single_notebook(p, u, id) /\ Observe(p)
        \/ \E u \in Callers, id \in NbIds :
             /\ procs[p].pc = "idle"
             /\ generate_notebook_pdf(p, u, id) /\ Observe(p)
        \/ \E u \in Callers, id \in NbIds :
             /\ procs[p].pc = "idle"
             /\ generate_notebook_quiz(p, u, id) /\ Observe(p)
        \/ \E u \in Callers, id \in NbIds :
             /\ procs[p].pc = "idle"
             /\ add_note_find(p, u, id, Hello) /\ Observe(p)
        \/ add_note_push(p, Noon) /\ Observe(p)
        \/ \E u \in Callers, id \in NbIds, n \in NoteIds :
             /\ procs[p].pc = "idle"
             /\ edit_note_find(p, u, id, n, Bye) /\ Observe(p)
        \/ edit_note_update(p) /\ Observe(p)
        \/ edit_note_return(p) /\ Observe(p)
        \/ \E u \in Callers, id \in NbIds, n \in NoteIds :
             /\ procs[p].pc = "idle"
             /\ delete_note_find(p, u, id, n) /\ Observe(p)
        \/ delete_note_pull(p) /\ Observe(p)
        \/ \E u \in Callers, id \in NbIds, e \in Emails, perm \in Permissions :
             /\ procs[p].pc = "idle"
             /\ share_notebook_find_user(p, u, id, e, perm) /\ Observe(p)
        \/ share_notebook_find_notebook(p) /\ Observe(p)
        \/ share_notebook_update(p) /\ Observe(p)
        \/ \E u \in Callers, id \in NbIds, public_status \in BOOLEAN :
             /\ procs[p].pc = "idle"
             /\ toggle_notebook_visibility_update(p, u, id, public_status) /\ Observe(p)
        \/ toggle_notebook_visibility_count(p) /\ Observe(p)
        \/ toggle_notebook_visibility_find(p) /\ Observe(p)
        \/ \E u \in Callers, id \in NbIds :
             /\ procs[p].pc = "idle"
             /\ update_notebook_tags_update(p, u, id, <<Math>>) /\ Observe(p)
        \/ update_notebook_tags_count(p) /\ Observe(p)
        \/ update_notebook_tags_find(p) /\ Observe(p)
        \/ \E u \in Callers, id \in NbIds :
             /\ procs[p].pc = "idle"
             /\ delete_notebook_delete(p, u, id) /\ Observe(p)
        \/ delete_notebook_count(p) /\ Observe(p)
        \/ \E u \in Callers, id \in NbIds :
             /\ procs[p].pc = "idle"
             /\ like_unlike_notebook_find(p, u, id) /\ Observe(p)
        \/ like_unlike_notebook_update(p) /\ Observe(p)
        \/ like_unlike_notebook_return(p) /\ Observe(p)

ErrorSpec == ErrorInit /\ [][ErrorNext]_vars

(***************************************************************************)
(* Claims about the error taxonomy (ErrorSpec).                            *)
(***************************************************************************)
NotebookOps ==
    {"get_single_notebook", "add_note", "edit_note", "delete_note", "share_notebook",
     "toggle_notebook_visibility", "update_notebook_tags", "delete_notebook",
     "like_unlike_notebook", "generate_notebook_pdf", "generate_notebook_quiz"}

OwnerOnlyOps ==
    {"share_notebook", "toggle_notebook_visibility", "update_notebook_tags",
     "delete_notebook"}

\* the request's other arguments are in order: a well-formed note id, a
\* registered recipient other than the caller
ValidArguments(c) ==
    /\ c.op \in {"edit_note", "delete_note"} => ObjectId_is_valid(c.arg.note_id)
    /\ c.op = "share_notebook" =>
         c.arg.recipient_email # c.user /\ IsRegistered(c.arg.recipient_email)

\* C22: a notebook operation addressed to a well-formed id that was not in
\* the store when the request arrived fails with NotFound (404), never with
\* Forbidden (403).
C22_AbsentIsNotFound ==
    /\ last.op \in NotebookOps
    /\ ValidArguments(last)
    /\ ObjectId_is_valid(last.nb)
    /\ last.nb \notin DOMAIN last.before
    => last.status = 404

\* C23: an owner-only operation on a notebook that was in the store when the
\* request arrived, by a caller who is not its owner, fails with Forbidden
\* (403), not with NotFound (404).
C23_NonOwnerIsForbidden ==
    /\ last.op \in OwnerOnlyOps
    /\ ValidArguments(last)
    /\ last.nb \in DOMAIN last.before
    /\ last.before[last.nb].owner_email # last.user
    => last.status = 403

(***************************************************************************)
(* POST /register: register_user.  No token is needed.  A user document    *)
(* is modelled by its email: no handler of the model reads the name or the *)
(* password hash.                                                          *)
(***************************************************************************)
\* mutant: the handler without its test for an existing user
register_user_find_unchecked(p, email, name) ==
    /\ Free(p)
    /\ LET r == Request("register_user", email, 0, [name |-> name]) IN
       Set(p, IF strip(name) = <<>> THEN Respond(r, 422, None)
              ELSE Goto(r, "register_insert", None))
    /\ UNCHANGED <<users, notebooks, nextNb, nextNote>>

\* the name's test and users_coll.find_one({"email": user.email})
register_user_find(p, email, name) ==
    /\ Free(p)
    /\ LET r == Request("register_user", email, 0, [name |-> name])
           existing_user == users_find_one(email) IN
       Set(p, IF strip(name) = <<>> THEN Respond(r, 422, None)
              ELSE IF existing_user # None THEN Respond(r, 400, None)
              ELSE Goto(r, "register_insert", None))
    /\ UNCHANGED <<users, notebooks, nextNb, nextNote>>

\* get_password_hash, which may raise (500), and users_coll.insert_one(user_dict)
register_user_insert(p) ==
    /\ procs[p].pc = "register_insert"
    /\ \/ /\ users' = Append(users, [email |-> procs[p].user])
          /\ Set(p, Respond(procs[p], 200, [email |-> procs[p].user]))
       \/ /\ UNCHANGED users
          /\ Set(p, Respond(procs[p], 500, None))
    /\ UNCHANGED <<notebooks, nextNb, nextNote>>

(***************************************************************************)
(* UsersRaceSpec: registrations of Dave and of Alice, who is registered,   *)
(* and Alice's shares of her notebook with Bob and with Dave, served by    *)
(* several workers, which interleave between their store calls.            *)
(***************************************************************************)
Blank == <<32>>         \* " "

UsersRaceInit ==
    /\ users = Registered
    /\ notebooks = <<new_notebook_data(Physics, Alice, Noon)>>
    /\ nextNb = 2
    /\ nextNote = 1
    /\ procs = [p \in Procs |-> Idle]
    /\ start = [p \in Procs |-> None]
    /\ last = NoCall
    /\ prev = NoCall

UsersRaceNext ==
    \E p \in Procs :
        \/ \E email \in {Alice, Dave}, name \in {Blank, Physics} :
             register_user_find(p, email, name) /\ Unobserved
        \/ register_user_insert(p) /\ Unobserved
        \/ \E e \in {Bob, Dave} :
             share_notebook_find_user(p, Alice, 1, e, "view") /\ Unobserved
        \/ share_notebook_find_notebook(p) /\ Unobserved
        \/ share_notebook_update(p) /\ Unobserved

UsersRaceSpec == UsersRaceInit /\ [][UsersRaceNext]_vars

(***************************************************************************)
(* Claims about the user store (UsersRaceSpec).                            *)
(***************************************************************************)
\* C24: at most one user record exists per email, and a registration whose
\* email is registered when its request arrives or when it completes adds no
\* record and fails, however the registrations are interleaved.
C24_EmailUnique ==
    /\ \A i, j \in DOMAIN users : users[i].email = users[j].email => i = j
    /\ \A p \in Procs :
         /\ procs[p].pc = "done"
         /\ procs[p].op = "register_user"
         /\ procs[p].resp.status = 200
         => Cardinality({i \in DOMAIN users : users[i].email = procs[p].user}) = 1

\* C30: every user_email of every access_list is the email of a registered
\* user, however registrations and shares are interleaved.
C30_EntriesAreRegistered ==
    \A id \in DOMAIN notebooks :
        \A i \in DOMAIN notebooks[id].access_list :
            IsRegistered(notebooks[id].access_list[i].user_email)

\* Dave, who was not registered at first, has an entry
C30_Witness ==
    /\ Quiet
    /\ \E i \in DOMAIN notebooks[1].access_list :
         notebooks[1].access_list[i].user_email = Dave
    /\ IsRegistered(Dave)

(***************************************************************************)
(* NotesRaceSpec: the note requests of Alice and of Bob, who may edit, on  *)
(* Alice's notebook, and their reads of it, served by several workers,     *)
(* which interleave between their store calls.                             *)
(***************************************************************************)
Editors == {Alice, Bob}
RaceNote == 1          \* the note that the edits and deletes name

NotesRaceNext ==
    \E p \in Procs :
        \/ \E u \in Editors : add_note_find(p, u, 1, Hello) /\ Arrival(p)
        \/ add_note_push(p, Noon) /\ Arrival(p)
        \/ edit_note_find(p, Bob, 1, RaceNote, Bye) /\ Arrival(p)
        \/ edit_note_update(p) /\ Arrival(p)
        \/ edit_note_return(p) /\ Arrival(p)
        \/ delete_note_find(p, Bob, 1, RaceNote) /\ Arrival(p)
        \/ delete_note_pull(p) /\ Arrival(p)
        \/ get_single_notebook(p, Alice, 1) /\ Arrival(p)

NotesRaceSpec == NotesInit /\ [][NotesRaceNext]_vars

(***************************************************************************)
(* Claims about interleaved note requests (NotesRaceSpec).                 *)
(***************************************************************************)
\* a note with its three fields, and no two notes of the list with one _id
WholeNotes(notes) ==
    /\ \A i \in DOMAIN notes :
         /\ DOMAIN notes[i] = {"_id", "content", "created_at"}
         /\ notes[i].content \in {Hello, Bye}
    /\ \A i, j \in DOMAIN notes : notes[i]._id = notes[j]._id => i = j

\* the step changes the notes of notebook 1 by one request's write: the
\* append of the note that an add-note request answers, the removal of the
\* note that a delete-note request names, or the new content of the note that
\* an edit-note request names
OneWrite ==
    LET old == notebooks[1].notes
        new == notebooks'[1].notes IN
    \/ new = old
    \/ \E p \in Procs :
         /\ procs[p].op = "add_note" /\ procs'[p].pc = "done"
         /\ procs'[p].resp.status = 200
         /\ procs'[p].resp.body.content = procs[p].arg.content
         /\ new = Append(old, procs'[p].resp.body)
    \/ \E p \in Procs :
         /\ procs[p].op = "delete_note" /\ procs'[p].pc = "done"
         /\ new = SelectSeq(old, LAMBDA note : note._id # procs[p].arg.note_id)
    \/ \E p \in Procs :
         /\ procs[p].op = "edit_note" /\ procs[p].pc = "edit_update"
         /\ new = [i \in DOMAIN old |->
                     IF old[i]._id = procs[p].arg.note_id
                     THEN [old[i] EXCEPT !.content = procs[p].arg.content]
                     ELSE old[i]]

\* an add-note request that answers 200 in this step has appended its note
SuccessAppends ==
    \A p \in Procs :
        /\ procs[p].pc = "add_push" /\ procs'[p].pc = "done"
        /\ procs'[p].resp.status = 200
        => notebooks'[1].notes = Append(notebooks[1].notes, procs'[p].resp.body)

\* C25: however add-note, edit-note and delete-note requests of users with
\* edit permission interleave on one notebook, a note whose add-note request
\* answers success is appended whole, every step leaves all notes in place
\* but the one that a delete-note request names, no note is duplicated, and
\* the notes that the store holds and that a read returns are whole.
C25_NoteWritesAtomic ==
    /\ [](WholeNotes(notebooks[1].notes))
    /\ [](\A p \in Procs :
            /\ procs[p].pc = "done"
            /\ procs[p].op = "get_single_notebook"
            /\ procs[p].resp.status = 200
            => WholeNotes(procs[p].resp.body.notes))
    /\ [][OneWrite /\ SuccessAppends]_vars

\* two add-note requests that were served together have both answered 200 and
\* both notes are stored
C25_Witness ==
    /\ Quiet
    /\ \E p, q \in Procs :
         /\ p # q
         /\ procs[p].op = "add_note" /\ procs[p].resp.status = 200
         /\ procs[q].op = "add_note" /\ procs[q].resp.status = 200
         /\ ~start[p].alone /\ ~start[q].alone
         /\ {procs[p].resp.body, procs[q].resp.body} \subseteq Range(notebooks[1].notes)
         /\ procs[p].resp.body # procs[q].resp.body

(***************************************************************************)
(* Claims about interleaved like and visibility requests (LikesRaceSpec).  *)
(***************************************************************************)
\* user_email neither owns doc nor has an entry in its access_list
Stranger(doc, user_email) ==
    /\ doc.owner_email # user_email
    /\ ~HasEntry(doc.access_list, user_email)

\* slot p answers in this step with a document that holds notes
AnswersWithNotes(p) ==
    /\ procs[p].pc # "done" /\ procs'[p].pc = "done"
    /\ procs'[p].resp.status = 200
    /\ "notes" \in DOMAIN procs'[p].resp.body
    /\ procs'[p].resp.body.notes # <<>>

\* C26: no response carries the notes of a notebook to a user who neither
\* owns it nor has an entry in its access_list when the notebook is not
\* public at the step that reads the response document, however like and
\* visibility requests interleave.
C26_NoNotesOfPrivateNotebook ==
    [][\A p \in Procs :
         /\ AnswersWithNotes(p)
         /\ procs[p].nb \in DOMAIN notebooks
         /\ Stranger(notebooks[procs[p].nb], procs[p].user)
         => notebooks[procs[p].nb].is_public]_vars

\* C27: the likes of a notebook change only in steps at which the notebook
\* is public, however like and visibility requests interleave.
C27_LikesChangeWhilePublic ==
    [][\A id \in DOMAIN notebooks :
         id \in DOMAIN notebooks' /\ notebooks'[id].likes # notebooks[id].likes
         => notebooks[id].is_public]_vars

(***************************************************************************)
(* DowngradeRaceSpec: Alice's shares of her notebook with Bob, as 'view'   *)
(* or as 'edit', and Bob's note requests on it, served by several workers, *)
(* which interleave between their store calls.  Bob may edit at first.     *)
(***************************************************************************)
DowngradeRaceInit ==
    /\ users = Registered
    /\ notebooks = <<[SharedNotebook EXCEPT
                        !.notes = <<[_id |-> 1, content |-> Hello, created_at |-> Noon]>>]>>
    /\ nextNb = 2
    /\ nextNote = 2
    /\ procs = [p \in Procs |-> Idle]
    /\ start = [p \in Procs |-> None]
    /\ last = NoCall
    /\ prev = NoCall

DowngradeRaceNext ==
    \E p \in Procs :
        \/ \E perm \in Permissions :
             share_notebook_find_user(p, Alice, 1, Bob, perm) /\ Unobserved
        \/ share_notebook_find_notebook(p) /\ Unobserved
        \/ share_notebook_update(p) /\ Unobserved
        \/ add_note_find(p, Bob, 1, Hello) /\ Unobserved
        \/ add_note_push(p, Noon) /\ Unobserved
        \/ edit_note_find(p, Bob, 1, RaceNote, Bye) /\ Unobserved
        \/ edit_note_update(p) /\ Unobserved
        \/ edit_note_return(p) /\ Unobserved
        \/ delete_note_find(p, Bob, 1, RaceNote) /\ Unobserved
        \/ delete_note_pull(p) /\ Unobserved

DowngradeRaceSpec == DowngradeRaceInit /\ [][DowngradeRaceNext]_vars

(***************************************************************************)
(* Claims about interleaved share and note requests (DowngradeRaceSpec).   *)
(***************************************************************************)
\* slot p takes this step
Steps(p) == procs'[p] # procs[p]

\* C28: a step that appends, edits or removes a note for a user who is not
\* the notebook's owner is taken only while the user's access_list entry has
\* the permission 'edit', however the owner's shares interleave with the
\* user's note requests.
C28_NoteWritesNeedEdit ==
    [][\A p \in Procs :
         /\ Steps(p)
         /\ procs[p].nb \in DOMAIN notebooks
         /\ procs[p].nb \in DOMAIN notebooks'
         /\ notebooks'[procs[p].nb].notes # notebooks[procs[p].nb].notes
         /\ notebooks[procs[p].nb].owner_email # procs[p].user
         => HasEntryWith(notebooks[procs[p].nb].access_list, procs[p].user, "edit")]_vars

(***************************************************************************)
(* Claims about the access_list under every operation (ErrorSpec).         *)
(***************************************************************************)
\* the entries of before are those of after, at their places, but for their
\* permissions; after may hold more
EntriesKept(before, after) ==
    /\ Len(before) <= Len(after)
    /\ \A i \in DOMAIN before : before[i].user_email = after[i].user_email

\* C29: no step removes or reorders the entries of the access_list of a
\* notebook that stays in the store, so a user who has an entry keeps one
\* while the notebook exists, and a step that changes an access_list is the
\* update of a share request by the notebook's owner.
C29_GrantsNeverRevoked ==
    [][\A id \in DOMAIN notebooks :
         id \in DOMAIN notebooks' =>
           /\ EntriesKept(notebooks[id].access_list, notebooks'[id].access_list)
           /\ notebooks'[id].access_list # notebooks[id].access_list =>
                \E p \in Procs :
                    /\ Steps(p)
                    /\ procs[p].op = "share_notebook"
                    /\ procs[p].nb = id
                    /\ procs[p].user = notebooks[id].owner_email]_vars

\* Alice has set the permission of Carol's entry, the second of two, to
\* 'edit': Bob's entry and Carol's are in their places
C29_Witness ==
    /\ last.op = "share_notebook" /\ last.status = 204
    /\ last.user = Alice
    /\ last.arg.recipient_email = Carol /\ last.arg.permission = "edit"
    /\ Len(last.before[last.nb].access_list) = 2
    /\ notebooks[last.nb].access_list =
         <<[user_email |-> Bob, permission |-> "edit"],
           [user_email |-> Carol, permission |-> "edit"]>>

====
